---- MODULE Spec2Model ----
(***************************************************************************)
(* A model of the compact crate's OpenAddressingMap (compact_hash_map.rs)  *)
(* built on CompactVec (compact_vec.rs).                                   *)
(*                                                                         *)
(* Conventions.                                                            *)
(*   - Option<T> is a sequence of length <= 1: None is <<>>, Some(x) <<x>>.*)
(*   - A CompactVec is a record [ptr, len, cap, items]; items holds the    *)
(*     len initialized slots, items[i+1] being Rust's element i.           *)
(*   - ptr is the mode of the PointerToMaybeCompact: "null" (the default), *)
(*     "free" (heap block owned by the vector) or "compact" (inside a      *)
(*     compact region).                                                    *)
(*   - usize is taken to be 64 bits wide, so hash as usize + i * i never   *)
(*     wraps for the capacities reached here.                              *)
(*   - usize subtraction and addition in CompactVec::insert do wrap in a   *)
(*     build without overflow checks; there the arithmetic is taken modulo *)
(*     UsizeModulus.                                                       *)
(***************************************************************************)
EXTENDS Integers, Sequences, FiniteSets, TLC

\* ------------------------------------------------------------------ bounds

\* Keys are 0 .. NumKeys-1.
NumKeys == 2
\* Items (plain values, and elements of vector values) are 1 .. MaxItem.
MaxItem == 2
\* A map whose values are vectors holds at most MaxVecItems items in all.
MaxVecItems == 2

Keys == 0 .. (NumKeys - 1)
Items == 1 .. MaxItem

\* The u32 values `hasher.finish() as u32` may take for a key.  DefaultHasher
\* is not modelled: the hash of every key is an arbitrary choice among these,
\* fixed in the initial state, so that keys may have the same hash, different
\* hashes that meet modulo some capacities (2 and 5) or hashes that do not
\* meet (capacities 3, 7 and 11).  The code only hashes and compares keys,
\* so the keys are interchangeable and only the non-decreasing assignments
\* are enumerated.
HashVals == {1, 2147483001}

\* The arguments with_capacity is called with: 4 by new(), 2 and 3 by the
\* tests very_basic1 and very_basic2, 0 by from_iter on an empty hint.
InitialCapacities == {0, 2, 3, 4}

None == <<>>
Some(x) == <<x>>

VARIABLES
    map,        \* the OpenAddressingMap the program holds
    needs_drop, \* std::mem::needs_drop::<V>(): TRUE when V is CompactVec<I>
    hasher,     \* Keys -> u32, the value of Self::hash for every key
    panicked,   \* a panic!/bounds check aborted the program
    model,      \* ghost: the abstract key -> Option<value> map
    script,     \* the position [phase, n, removed] of the scripted run of
                \* SpecCapacity; phase "off" when the calls are not scripted,
                \* phase "vec" when the program drives the vector vec
    vec,        \* the CompactVec<V> the program holds
    iter,       \* the QuadraticProbingIterator [i, number_used, hash] the
                \* program walks, None when it holds no iterator
    visited,    \* ghost: the bucket indices iter has yielded, in order
    heap        \* ghost: the allocator's blocks and the blocks vec owns

vars == <<map, needs_drop, hasher, panicked, model, script, vec, iter, visited, heap>>

\* --------------------------------------------------------------- CompactVec

\* PointerToMaybeCompact::is_compact
is_compact(ptr) == ptr # "free"

\* CompactVec::new
vec_new == [ptr |-> "null", len |-> 0, cap |-> 0, items |-> <<>>]

\* CompactVec::with_capacity
vec_with_capacity(cap) == [ptr |-> "free", len |-> 0, cap |-> cap, items |-> <<>>]

\* From<Vec<T>> for CompactVec: from_raw_parts(ptr, vec.len(), vec.capacity());
\* the Vecs converted here (vec![x; n] and an exact-size collect) have
\* capacity == len.
vec_from(items) ==
    [ptr |-> "free", len |-> Len(items), cap |-> Len(items), items |-> items]

\* The element type T of a CompactVec<T> is "Entry" (the bucket array of the
\* map), "Item" (a plain value) or "Value" (the value type V of the map, a
\* plain value or a CompactVec of plain values); its Compact and Clone
\* implementations are given with the entries below.
RECURSIVE elem_decompact(_, _)
RECURSIVE elem_compact(_, _)
RECURSIVE elem_clone(_, _)
RECURSIVE elem_is_still_compact(_, _)

\* Mutant of double_buf: the buffer grows by one slot
double_buf_by_one(v, T) ==
    LET new_cap == v.cap + 1
    IN  [ptr |-> "free", len |-> v.len, cap |-> new_cap,
         items |-> [i \in 1 .. v.len |-> elem_decompact(T, v.items[i])]]

\* CompactVec::double_buf, elements carried over by T::decompact
double_buf(v, T) ==
    LET new_cap == IF v.cap = 0 THEN 1 ELSE v.cap * 2
    IN  [ptr |-> "free", len |-> v.len, cap |-> new_cap,
         items |-> [i \in 1 .. v.len |-> elem_decompact(T, v.items[i])]]

\* Mutant of push: the value is written to slot 0, in front of the others
push_in_front(v, value, T) ==
    [(IF v.len = v.cap THEN double_buf(v, T) ELSE v)
        EXCEPT !.items = <<value>> \o @, !.len = @ + 1]

\* CompactVec::push
push(v, value, T) ==
    [(IF v.len = v.cap THEN double_buf(v, T) ELSE v)
        EXCEPT !.items = Append(@, value), !.len = @ + 1]

\* Mutant of vec_from_iter: the vector is made with one spare slot
vec_from_iter_spare(items, T) ==
    LET pushed[i \in 0 .. Len(items)] ==
            IF i = 0 THEN vec_with_capacity(Len(items) + 1)
            ELSE push(pushed[i - 1], items[i], T)
    IN  pushed[Len(items)]

\* FromIterator for CompactVec: with_capacity(size_hint().0), then push each
vec_from_iter(items, T) ==
    LET pushed[i \in 0 .. Len(items)] ==
            IF i = 0 THEN vec_with_capacity(Len(items))
            ELSE push(pushed[i - 1], items[i], T)
    IN  pushed[Len(items)]

\* Compact for CompactVec::is_still_compact
vec_is_still_compact(v, nd, T) ==
    IF nd
    THEN is_compact(v.ptr) /\ \A i \in 1 .. v.len : elem_is_still_compact(T, v.items[i])
    ELSE is_compact(v.ptr)

\* Mutant of vec_compact: the pointer of the destination keeps the source's mode
vec_compact_keeps_mode(v, nd, T) ==
    [ptr |-> v.ptr, len |-> v.len, cap |-> v.cap,
     items |-> IF nd THEN [i \in 1 .. v.len |-> elem_compact(T, v.items[i])] ELSE v.items]

\* Compact for CompactVec::compact: the destination
vec_compact(v, nd, T) ==
    [ptr |-> "compact", len |-> v.len, cap |-> v.cap,
     items |-> IF nd THEN [i \in 1 .. v.len |-> elem_compact(T, v.items[i])] ELSE v.items]

\* Compact for CompactVec::decompact
vec_decompact(v, nd, T) ==
    IF is_compact(v.ptr)
    THEN IF nd
         THEN vec_from_iter([i \in 1 .. v.len |-> elem_decompact(T, v.items[i])], T)
         ELSE v
    ELSE v

\* Mutant of vec_clone: a vector of plain elements is copied field by field
vec_clone_shallow(v, nd, T) ==
    IF nd
    THEN vec_from([i \in 1 .. v.len |-> elem_clone(T, v.items[i])])
    ELSE v

\* Clone for CompactVec
vec_clone(v, nd, T) ==
    IF nd
    THEN vec_from([i \in 1 .. v.len |-> elem_clone(T, v.items[i])])
    ELSE [ptr |-> "free", len |-> v.len, cap |-> v.cap, items |-> v.items]

\* Mutant of drain: the vector is emptied but keeps its buffer
drain_keeps_buffer(v, nd, T) ==
    [yielded |-> vec_decompact(v, nd, T).items,
     left |-> [v EXCEPT !.len = 0, !.items = <<>>]]

\* CompactVec::drain: the items the IntoIter yields, and the vector left behind
drain(v, nd, T) ==
    [yielded |-> vec_decompact(v, nd, T).items, left |-> vec_new]

\* The modulus of wrapping usize arithmetic.  The machine's is 2^64; the
\* vectors here hold a handful of elements, and 2^30 keeps every sum below
\* the largest integer of the model checker.
UsizeModulus == 1073741824

\* Mutant of insert_shift: only the last element is moved up
insert_shift_last_only(r, index, i, T) ==
    IF i < 0 THEN r
    ELSE IF (index + i) % UsizeModulus >= r.vec.len
    THEN [r EXCEPT !.panic = TRUE]
    ELSE [r EXCEPT !.buf[((index + i) % UsizeModulus) + 2] =
                       elem_decompact(T, r.buf[((index + i) % UsizeModulus) + 1]),
                   !.written = @ + 1]

\* The loop of CompactVec::insert, iterations i down to 0 of
\*   for i in (0..self.len as usize - index).rev()
\* r is [vec, buf, panic, written]: buf holds the slots 0 .. len of the
\* buffer (the last one uninitialized), written counts the ptr::write calls,
\* panic is set by the bounds check of self[index + i].
RECURSIVE insert_shift(_, _, _, _)
insert_shift(r, index, i, T) ==
    IF i < 0 THEN r
    ELSE IF (index + i) % UsizeModulus >= r.vec.len
    THEN [r EXCEPT !.panic = TRUE]
    ELSE insert_shift(
             [r EXCEPT !.buf[((index + i) % UsizeModulus) + 2] =
                           elem_decompact(T, r.buf[((index + i) % UsizeModulus) + 1]),
                       !.written = @ + 1],
             index, i - 1, T)

\* The end of CompactVec::insert: ptr::write(ptr, value); self.len += 1,
\* unless the loop panicked
insert_end(r, index, value) ==
    IF r.panic
    THEN [vec |-> [r.vec EXCEPT !.items = SubSeq(r.buf, 1, r.vec.len)],
          panic |-> TRUE, written |-> r.written]
    ELSE [vec |-> [r.vec EXCEPT !.items = [r.buf EXCEPT ![index + 1] = value],
                                !.len = @ + 1],
          panic |-> FALSE, written |-> r.written + 1]

\* CompactVec::insert after the growth left g.  With overflow checks
\* `self.len as usize - index` panics when index > len; without them it wraps.
insert_from(g, index, value, T, overflow_checks) ==
    IF overflow_checks /\ index > g.len
    THEN [vec |-> g, panic |-> TRUE, written |-> 0]
    ELSE insert_end(
             insert_shift([vec |-> g, buf |-> Append(g.items, "uninitialized"),
                           panic |-> FALSE, written |-> 0],
                          index, ((g.len - index) % UsizeModulus) - 1, T),
             index, value)

\* CompactVec::insert: the vector afterwards, whether the call panicked and
\* how many element slots it wrote
vec_insert(v, index, value, T, overflow_checks) ==
    insert_from(IF v.len = v.cap THEN double_buf(v, T) ELSE v,
                index, value, T, overflow_checks)

\* The loop of CompactVec::remove, from iteration i on, of
\*   for i in 0..(len as usize) - index - 1
\* r is [vec, buf, ret, panic, written]
RECURSIVE remove_shift(_, _, _, _)
remove_shift(r, index, i, T) ==
    IF i >= r.vec.len - index - 1 THEN r
    ELSE IF index + i + 1 >= r.vec.len
    THEN [r EXCEPT !.panic = TRUE]
    ELSE remove_shift(
             [r EXCEPT !.buf[index + i + 1] = elem_decompact(T, r.buf[index + i + 2]),
                       !.written = @ + 1],
             index, i + 1, T)

\* The end of CompactVec::remove: self.len -= 1; ret
remove_end(r) ==
    [vec |-> [r.vec EXCEPT !.items = SubSeq(r.buf, 1, r.vec.len - 1), !.len = @ - 1],
     ret |-> r.ret, panic |-> r.panic, written |-> r.written]

\* CompactVec::remove: the vector afterwards, the element returned, whether
\* the call panicked and how many element slots it wrote
vec_remove(v, index, T) ==
    IF ~(index < v.len)
    THEN [vec |-> v, ret |-> None, panic |-> TRUE, written |-> 0]
    ELSE remove_end(
             remove_shift([vec |-> v, buf |-> v.items,
                           ret |-> Some(elem_decompact(T, v.items[index + 1])),
                           panic |-> FALSE, written |-> 0],
                          index, 0, T))

\* CompactVec::swap_remove; &self[index] is bounds-checked
swap_remove(v, index, T) ==
    IF index >= v.len
    THEN [vec |-> v, ret |-> None, panic |-> TRUE, written |-> 0]
    ELSE [vec |-> [v EXCEPT
                     !.items = SubSeq([v.items EXCEPT ![index + 1] =
                                          elem_decompact(T, v.items[v.len])],
                                      1, v.len - 1),
                     !.len = @ - 1],
          ret |-> Some(elem_decompact(T, v.items[index + 1])),
          panic |-> FALSE, written |-> 1]

\* CompactVec::truncate: the elements from desired_len on are dropped
truncate(v, desired_len) ==
    IF desired_len < v.len
    THEN [v EXCEPT !.len = desired_len, !.items = SubSeq(@, 1, desired_len)]
    ELSE v

\* slice::swap moves the bytes of an element of type T from slot `from` to
\* slot `to`.  A pointer in compact mode designates its target relative to
\* where the pointer itself lies, which is what lets a compacted block be
\* copied byte for byte; moved without its tail, a vector in compact mode
\* designates memory that does not hold its items: its pointer is marked
\* "dangling" until the element is read.
moved(T, x, from, to) ==
    IF T = "Value" /\ needs_drop /\ from # to
    THEN IF x.ptr = "compact" THEN [x EXCEPT !.ptr = "dangling"] ELSE x
    ELSE x

\* What the closure of retain sees of the element x behind &T: the items of
\* a vector, a plain value itself
seen(T, x) == IF T = "Value" /\ needs_drop THEN x.items ELSE x

\* The loop of CompactVec::retain, from iteration i on, of
\*   for i in 0..len { if !keep(&v[i]) { del += 1 } else { v.swap(i - del, i) } }
\* r is [buf, del]; keep is the set of what the closure accepts
RECURSIVE retain_loop(_, _, _, _)
retain_loop(r, keep, i, T) ==
    IF i >= Len(r.buf) THEN r
    ELSE IF seen(T, r.buf[i + 1]) \notin keep
    THEN retain_loop([r EXCEPT !.del = @ + 1], keep, i + 1, T)
    ELSE retain_loop([r EXCEPT !.buf[i - r.del + 1] = moved(T, r.buf[i + 1], i, i - r.del),
                               !.buf[i + 1] = moved(T, r.buf[i - r.del + 1], i - r.del, i)],
                     keep, i + 1, T)

\* The end of CompactVec::retain: if del > 0 { self.truncate(len - del) }
retain_end(v, r) ==
    IF r.del > 0
    THEN truncate([v EXCEPT !.items = r.buf], v.len - r.del)
    ELSE [v EXCEPT !.items = r.buf]

\* CompactVec::retain
retain(v, keep, T) ==
    retain_end(v, retain_loop([buf |-> v.items, del |-> 0], keep, 0, T))

\* What a program can read of the element x: its items, or anything at all
\* through a pointer that designates other memory
reads(T, x) ==
    IF T = "Value" /\ needs_drop
    THEN IF x.ptr = "dangling"
         THEN {[x EXCEPT !.ptr = "compact", !.items = s] : s \in [1 .. x.len -> Items]}
         ELSE {x}
    ELSE {x}

\* What a program can read of the elements items, in order
RECURSIVE readings(_, _)
readings(T, items) ==
    IF items = <<>> THEN {<<>>}
    ELSE {Append(front, last) :
              front \in readings(T, SubSeq(items, 1, Len(items) - 1)),
              last \in reads(T, items[Len(items)])}

\* The vectors a program can hold after vec.retain(keep)
retain_outcomes(v, keep, T) ==
    {[retain(v, keep, T) EXCEPT !.items = s] :
         s \in readings(T, retain(v, keep, T).items)}

\* ---------------------------------------------------------------- Allocator

\* The blocks of the heap are numbered 1, 2, ... in the order A::allocate
\* hands them out.  heap is [count, region, outer, inner]: count[b] is the
\* number of A::deallocate calls on block b, region the number of
\* A::deallocate calls on memory of a compact region; outer is the block of
\* the buffer of vec and inner[i] the block of the buffer of its element i,
\* 0 for a pointer that holds no block of the heap (null, or into a compact
\* region) and for a plain element.  For a map, outer is the block of the
\* bucket array and val[k] the block of the buffer of the value at key k.
heap_new ==
    [count |-> <<>>, region |-> 0, outer |-> 0, inner |-> <<>>,
     val |-> [k \in Keys |-> 0]]

\* A::allocate: the new block is the last one of count
allocate(h) == [h EXCEPT !.count = Append(@, 0)]

\* A::deallocate on block b, or on memory of a compact region when b = 0
deallocate(h, b) ==
    IF b = 0 THEN [h EXCEPT !.region = @ + 1] ELSE [h EXCEPT !.count[b] = @ + 1]

\* Mutant of deallocate_if_free: the block is given back whatever the mode
deallocate_always(h, ptr, b) == IF ptr = "null" THEN h ELSE deallocate(h, b)

\* PointerToMaybeCompact::deallocate_if_free on a pointer of mode ptr to
\* block b
deallocate_if_free(h, ptr, b) == IF is_compact(ptr) THEN h ELSE deallocate(h, b)

\* CompactVec::double_buf on v: allocate the new buffer, deallocate_if_free
\* the old one, set_to_free(new_ptr); the elements are moved by decompact,
\* which leaves the buffer of a vector of plain items where it is
heap_double_buf(h, v) ==
    [deallocate_if_free(allocate(h), v.ptr, h.outer) EXCEPT !.outer = Len(h.count) + 1]

\* CompactVec::push on v of a value that owns block b
heap_push(h, v, b) ==
    [(IF v.len = v.cap THEN heap_double_buf(h, v) ELSE h)
        EXCEPT !.inner = Append(@, b)]

\* CompactVec::insert on v, at an index <= len, of a value that owns block b
heap_insert(h, v, index, b) ==
    [(IF v.len = v.cap THEN heap_double_buf(h, v) ELSE h)
        EXCEPT !.inner = SubSeq(@, 1, index) \o <<b>> \o SubSeq(@, index + 1, Len(@))]

\* deallocate_if_free on the pointer of every element i .. len of v, a vector
\* of vectors of plain items
RECURSIVE heap_free_items(_, _, _)
heap_free_items(h, v, i) ==
    IF i > v.len THEN h
    ELSE heap_free_items(deallocate_if_free(h, v.items[i].ptr, h.inner[i]), v, i + 1)

\* Compact for CompactVec::compact on the source v: every element is
\* compacted, which ends with deallocate_if_free on its pointer, then
\* deallocate_if_free on the pointer of v; no pointer of the destination
\* holds a block of the heap
heap_compact(h, v, nd) ==
    [deallocate_if_free(IF nd THEN heap_free_items(h, v, 1) ELSE h, v.ptr, h.outer)
        EXCEPT !.outer = 0, !.inner = [i \in 1 .. v.len |-> 0]]

\* Compact for CompactVec::decompact on v: a vector in compact storage whose
\* elements are vectors is collected into with_capacity(len), which
\* allocates; every other vector is copied field by field
heap_decompact(h, v, nd) ==
    IF is_compact(v.ptr) /\ nd
    THEN [allocate(h) EXCEPT !.outer = Len(h.count) + 1]
    ELSE h

\* Drop for CompactVec on v: drop_in_place of the elements, then
\* deallocate_if_free on the pointer of v
heap_drop(h, v, nd) ==
    [deallocate_if_free(IF nd THEN heap_free_items(h, v, 1) ELSE h, v.ptr, h.outer)
        EXCEPT !.outer = 0, !.inner = <<>>]

\* The value type V: CompactVec<I> with I plain when needs_drop, else plain.
value_decompact(v) == IF needs_drop THEN vec_decompact(v, FALSE, "Item") ELSE v
value_compact(v) == IF needs_drop THEN vec_compact(v, FALSE, "Item") ELSE v
value_clone(v) == IF needs_drop THEN vec_clone(v, FALSE, "Item") ELSE v
value_is_still_compact(v) ==
    IF needs_drop THEN vec_is_still_compact(v, FALSE, "Item") ELSE TRUE

\* -------------------------------------------------------------------- Entry

\* Default for Entry
entry_default == [hash |-> 0, tombstoned |-> FALSE, inner |-> None]

\* Mutant of make_used: the hash is not cached in the entry
make_used_hash_lost(e, hash, key, value) ==
    [e EXCEPT !.inner = Some(<<key, value>>)]

\* Entry::make_used
make_used(e, hash, key, value) ==
    [e EXCEPT !.hash = hash, !.inner = Some(<<key, value>>)]

\* Entry::value_option
value_option(e) == IF e.inner = None THEN None ELSE Some(e.inner[1][2])

\* Option<&V>::cloned
cloned(o) == IF o = None THEN None ELSE Some(value_clone(o[1]))

\* Mutant of replace_value: the old value is returned but the new one not stored
replace_value_keeps_old(e, new_val) == [entry |-> e, old |-> value_option(e)]

\* Entry::replace_value: the entry afterwards and the value returned
replace_value(e, new_val) ==
    IF e.inner = None
    THEN [entry |-> e, old |-> None]
    ELSE [entry |-> [e EXCEPT !.inner = Some(<<e.inner[1][1], new_val>>)],
          old |-> Some(value_clone(e.inner[1][2]))]

\* Mutant of entry_remove: the key/value pair is left in the entry
entry_remove_keeps_inner(e) ==
    [entry |-> [e EXCEPT !.tombstoned = TRUE], old |-> value_option(e)]

\* Mutant of entry_remove: the entry is not marked tombstoned
entry_remove_no_tombstone(e) ==
    [entry |-> [e EXCEPT !.inner = None], old |-> value_option(e)]

\* Mutant of entry_remove: the cached hash is cleared with the pair
entry_remove_hash_cleared(e) ==
    [entry |-> [e EXCEPT !.inner = None, !.tombstoned = TRUE, !.hash = 0],
     old |-> cloned(value_option(e))]

\* Entry::remove: the entry afterwards and the value returned
entry_remove(e) ==
    [entry |-> [e EXCEPT !.inner = None, !.tombstoned = TRUE],
     old |-> cloned(value_option(e))]

\* Entry::used, Entry::alive
used(e) == e.tombstoned \/ e.inner # None
alive(e) == e.inner # None

\* Mutant of free: a tombstoned entry counts as free
free_or_tombstoned(e) == e.inner = None

\* Entry::free
free(e) == e.inner = None /\ ~e.tombstoned

\* Entry::is_this
is_this(e, key) == e.inner # None /\ e.inner[1][1] = key

\* Clone for Entry (derived)
entry_clone(e) ==
    IF e.inner = None THEN e
    ELSE [e EXCEPT !.inner = Some(<<e.inner[1][1], value_clone(e.inner[1][2])>>)]

\* Compact for Entry::is_still_compact
entry_is_still_compact(e) ==
    IF needs_drop
    THEN IF e.tombstoned THEN TRUE
         ELSE IF e.inner = None THEN TRUE
         ELSE value_is_still_compact(e.inner[1][2])
    ELSE TRUE

\* Mutant of entry_compact: hash and tombstoned are copied, inner is not
entry_compact_inner_lost(e) == [e EXCEPT !.inner = None]

\* Compact for Entry::compact: the destination
entry_compact(e) ==
    IF needs_drop /\ e.inner # None
    THEN [e EXCEPT !.inner = Some(<<e.inner[1][1], value_compact(e.inner[1][2])>>)]
    ELSE e

\* Compact for Entry::decompact
entry_decompact(e) ==
    IF e.inner = None THEN e
    ELSE IF needs_drop
    THEN [e EXCEPT !.inner = Some(<<e.inner[1][1], value_decompact(e.inner[1][2])>>)]
    ELSE e

\* T::decompact, T::compact, T::clone and T::is_still_compact of the element
\* types; a plain item is read, copied or cloned bytewise and is always compact
elem_decompact(T, x) ==
    IF T = "Entry" THEN entry_decompact(x)
    ELSE IF T = "Value" THEN value_decompact(x) ELSE x
elem_compact(T, x) ==
    IF T = "Entry" THEN entry_compact(x)
    ELSE IF T = "Value" THEN value_compact(x) ELSE x
elem_clone(T, x) ==
    IF T = "Entry" THEN entry_clone(x)
    ELSE IF T = "Value" THEN value_clone(x) ELSE x
elem_is_still_compact(T, x) ==
    IF T = "Entry" THEN entry_is_still_compact(x)
    ELSE IF T = "Value" THEN value_is_still_compact(x) ELSE TRUE

\* -------------------------------------------------------------- tail layout

\* std::mem::size_of of a plain item (usize), of a CompactVec (pointer, len
\* and cap) and of the fields of an Entry around its value (hash, tombstoned,
\* the discriminant of inner, the key), in bytes on a 64-bit machine
SizeOfItem == 8
SizeOfVec == 24
EntryOverhead == 24

\* std::mem::size_of::<T>()
size_of(T) ==
    IF T = "Entry" THEN EntryOverhead + (IF needs_drop THEN SizeOfVec ELSE SizeOfItem)
    ELSE IF T = "Value" /\ needs_drop THEN SizeOfVec
    ELSE SizeOfItem

RECURSIVE elem_dynamic_size_bytes(_, _)

\* Mutant of vec_dynamic_size_bytes: the element array is counted by len
vec_dynamic_size_bytes_by_len(v, nd, T) ==
    LET base_size == v.len * size_of(T)
        sum[i \in 0 .. v.len] ==
            IF i = 0 THEN 0 ELSE sum[i - 1] + elem_dynamic_size_bytes(T, v.items[i])
    IN  IF nd THEN base_size + sum[v.len] ELSE base_size

\* Compact for CompactVec::dynamic_size_bytes
vec_dynamic_size_bytes(v, nd, T) ==
    LET base_size == v.cap * size_of(T)
        sum[i \in 0 .. v.len] ==
            IF i = 0 THEN 0 ELSE sum[i - 1] + elem_dynamic_size_bytes(T, v.items[i])
    IN  IF nd THEN base_size + sum[v.len] ELSE base_size

\* V::dynamic_size_bytes: 0 for a plain value
value_dynamic_size_bytes(v) ==
    IF needs_drop THEN vec_dynamic_size_bytes(v, FALSE, "Item") ELSE 0

\* Compact for Entry::dynamic_size_bytes
entry_dynamic_size_bytes(e) ==
    IF needs_drop
    THEN IF e.tombstoned THEN 0
         ELSE IF e.inner = None THEN 0
         ELSE value_dynamic_size_bytes(e.inner[1][2])
    ELSE 0

\* T::dynamic_size_bytes of the element types
elem_dynamic_size_bytes(T, x) ==
    IF T = "Entry" THEN entry_dynamic_size_bytes(x)
    ELSE IF T = "Value" THEN value_dynamic_size_bytes(x) ELSE 0

\* The bytes a call of compact writes are a set of [lo, hi, part, index]:
\* the addresses lo .. hi - 1, written as the slot of element index of the
\* element array (part "array", index 0 for a whole array of plain elements)
\* or as the tail of element index (part "tail"); index counts from 1.

\* Compact for CompactVec::compact of a vector of plain items whose
\* destination is the slot of element index: copy_nonoverlapping of len
\* items to new_dynamic_part
value_compact_writes(v, new_dynamic_part, index) ==
    IF needs_drop /\ v.len > 0
    THEN {[lo |-> new_dynamic_part, hi |-> new_dynamic_part + v.len * SizeOfItem,
           part |-> "tail", index |-> index]}
    ELSE {}

\* Compact for Entry::compact to the slot at dest: hash, tombstoned and inner
\* are written to the slot, the value of a Some inner is compacted to
\* new_dynamic_part
entry_compact_writes(e, dest, new_dynamic_part, index) ==
    {[lo |-> dest, hi |-> dest + size_of("Entry"), part |-> "array", index |-> index]}
    \cup (IF needs_drop /\ e.inner # None
          THEN value_compact_writes(e.inner[1][2], new_dynamic_part, index)
          ELSE {})

\* T::compact of element index to the slot at dest
elem_compact_writes(T, x, dest, new_dynamic_part, index) ==
    IF T = "Entry" THEN entry_compact_writes(x, dest, new_dynamic_part, index)
    ELSE {[lo |-> dest, hi |-> dest + size_of(T), part |-> "array", index |-> index]}
         \cup (IF T = "Value" THEN value_compact_writes(x, new_dynamic_part, index) ELSE {})

\* Compact for CompactVec::compact: the bytes written behind new_dynamic_part;
\* offset[i] is the variable offset after i turns of the loop
vec_compact_writes(v, nd, T, new_dynamic_part) ==
    LET offset[i \in 0 .. v.len] ==
            IF i = 0 THEN v.cap * size_of(T)
            ELSE offset[i - 1] + elem_dynamic_size_bytes(T, v.items[i])
    IN  IF nd
        THEN UNION {elem_compact_writes(T, v.items[i],
                                        new_dynamic_part + (i - 1) * size_of(T),
                                        new_dynamic_part + offset[i - 1], i) :
                    i \in 1 .. v.len}
        ELSE IF v.len = 0 THEN {}
        ELSE {[lo |-> new_dynamic_part, hi |-> new_dynamic_part + v.len * size_of(T),
               part |-> "array", index |-> 0]}

\* -------------------------------------------------------- OpenAddressingMap

\* The element type of map.entries is Entry<K, V>; K is Copy, so
\* needs_drop::<Entry<K, V>>() is needs_drop::<V>().

\* Mutant of find_next_prime: the capacity asked for is not rounded to a prime
find_next_prime_unrounded(n) == IF n < 2 THEN 2 ELSE n

\* OpenAddressingMap::find_next_prime: the first prime of the sieve that is >= n
IsPrime(n) == n >= 2 /\ \A d \in 2 .. (n - 1) : d * d > n \/ n % d # 0

RECURSIVE find_next_prime(_)
find_next_prime(n) == IF IsPrime(n) THEN n ELSE find_next_prime(n + 1)

\* Mutant of with_capacity: the table has exactly the l entries asked for
with_capacity_exact(l) ==
    [entries |-> vec_from([i \in 1 .. l |-> entry_default]),
     number_alive |-> 0,
     number_used |-> 0]

\* OpenAddressingMap::with_capacity
with_capacity(l) ==
    [entries |-> vec_from([i \in 1 .. find_next_prime(l) |-> entry_default]),
     number_alive |-> 0,
     number_used |-> 0]

\* OpenAddressingMap::new
NewCapacity == 4
new == with_capacity(NewCapacity)

\* OpenAddressingMap::len
len(m) == m.number_alive

\* OpenAddressingMap::capacity
capacity(m) == m.entries.cap

\* OpenAddressingMap::hash
hash(key) == hasher[key]

\* Mutant of probe_index: linear probing
probe_index_linear(h, i, number_used) == (h + i) % number_used

\* QuadraticProbingIterator::next / QuadraticProbingMutIterator::next: the
\* index of the i-th probe; for_map sets number_used to entries.capacity()
probe_index(h, i, number_used) == (h + i * i) % number_used

\* QuadraticProbingIterator::for_map / QuadraticProbingMutIterator::for_map
for_map(m, h) == [i |-> 0, number_used |-> m.entries.cap, hash |-> h]

\* QuadraticProbingIterator::next / QuadraticProbingMutIterator::next: the
\* iterator afterwards and the index of the entry yielded, None at the end
iter_next(it) ==
    IF it.i >= it.number_used
    THEN [iter |-> it, index |-> None]
    ELSE [iter |-> [it EXCEPT !.i = @ + 1],
          index |-> Some(probe_index(it.hash, it.i, it.number_used))]

\* OpenAddressingMap::insert_inner_inner: the probe loop from probe i on.
\* Yields the map, the value returned, and whether the call panicked
\* ("should have place", or entries[index] out of bounds).
RECURSIVE insert_probe(_, _, _, _, _)
insert_probe(m, h, query, value, i) ==
    IF i >= m.entries.cap
    THEN [map |-> m, res |-> None, panic |-> TRUE]
    ELSE LET index == probe_index(h, i, m.entries.cap)
         IN  IF index >= m.entries.len
             THEN [map |-> m, res |-> None, panic |-> TRUE]
             ELSE LET entry == m.entries.items[index + 1]
                  IN  IF free(entry)
                      THEN [map |-> [m EXCEPT !.entries.items[index + 1] =
                                         make_used(entry, h, query, value)],
                            res |-> None, panic |-> FALSE]
                      ELSE IF is_this(entry, query)
                      THEN LET r == replace_value(entry, value)
                           IN  [map |-> [m EXCEPT !.entries.items[index + 1] = r.entry],
                                res |-> r.old, panic |-> FALSE]
                      ELSE insert_probe(m, h, query, value, i + 1)

insert_inner_inner(m, query, value) == insert_probe(m, hash(query), query, value, 0)

\* insert_inner after insert_inner_inner returned r: a new entry is counted
count_inserted(r) ==
    IF r.panic THEN r
    ELSE IF r.res = None
    THEN [r EXCEPT !.map.number_alive = @ + 1, !.map.number_used = @ + 1]
    ELSE r

\* Mutant of insert_inner: the counters grow on every insert
insert_inner_always_counts(m, query, value) ==
    [insert_inner_inner(m, query, value)
        EXCEPT !.map.number_alive = @ + 1, !.map.number_used = @ + 1]

\* OpenAddressingMap::insert_inner
insert_inner(m, query, value) == count_inserted(insert_inner_inner(m, query, value))

\* OpenAddressingMap::ensure_capacity and insert_inner_growing call each other:
\* the rebuild re-inserts the alive entries with new_hash_map.insert.
RECURSIVE ensure_capacity(_)
RECURSIVE insert_inner_growing(_, _, _)
RECURSIVE reinsert(_, _, _, _)

\* Mutant of reinsert_entry: the drained entries are not inserted again
reinsert_entry_dropped(new_hash_map, entry) ==
    [map |-> new_hash_map, res |-> None, panic |-> FALSE]

\* The body of the loop of ensure_capacity for one drained entry
reinsert_entry(new_hash_map, entry) ==
    IF alive(entry)
    THEN insert_inner_growing(new_hash_map, entry.inner[1][1], entry.inner[1][2])
    ELSE [map |-> new_hash_map, res |-> None, panic |-> FALSE]

\* The loop of ensure_capacity goes on over lo .. hi, unless it panicked
reinsert_rest(left, yielded, lo, hi) ==
    IF left.panic THEN left ELSE reinsert(left.map, yielded, lo, hi)

\* The loop of ensure_capacity over the drained entries lo .. hi, in index
\* order (the range is folded by halves, which keeps the evaluation shallow)
reinsert(new_hash_map, yielded, lo, hi) ==
    IF lo > hi THEN [map |-> new_hash_map, res |-> None, panic |-> FALSE]
    ELSE IF lo = hi THEN reinsert_entry(new_hash_map, yielded[lo])
    ELSE reinsert_rest(reinsert(new_hash_map, yielded, lo, (lo + hi) \div 2),
                       yielded, (lo + hi) \div 2 + 1, hi)

\* The loop of ensure_capacity over everything the drain yields
reinsert_all(new_hash_map, yielded) ==
    reinsert(new_hash_map, yielded, 1, Len(yielded))

\* The end of a rebuild: *self = new_hash_map
rebuilt_as(r) == [map |-> r.map, rebuilt |-> TRUE, panic |-> r.panic]

\* The rebuild of ensure_capacity into a table of find_next_prime(new_capacity)
rebuild(m, new_capacity) ==
    rebuilt_as(reinsert_all(with_capacity(new_capacity),
                            drain(m.entries, needs_drop, "Entry").yielded))

\* Mutant of ensure_capacity: the table is never rebuilt
ensure_capacity_never(m) == [map |-> m, rebuilt |-> FALSE, panic |-> FALSE]

\* Mutant of ensure_capacity: the rebuild never doubles the capacity
ensure_capacity_same_cap(m) ==
    IF m.number_used > m.entries.cap \div 2
    THEN rebuild(m, m.entries.cap)
    ELSE [map |-> m, rebuilt |-> FALSE, panic |-> FALSE]

\* Mutant of ensure_capacity: number_dead counts the free slots only
ensure_capacity_dead_is_free(m) ==
    IF m.number_used > m.entries.cap \div 2
    THEN rebuild(m, IF m.entries.cap - m.number_used > m.entries.cap \div 2
                    THEN m.entries.cap
                    ELSE m.entries.cap * 2)
    ELSE [map |-> m, rebuilt |-> FALSE, panic |-> FALSE]

\* Mutant of ensure_capacity: the new table is sized for the alive entries
ensure_capacity_for_alive(m) ==
    IF m.number_used > m.entries.cap \div 2
    THEN rebuild(m, 2 * m.number_alive)
    ELSE [map |-> m, rebuilt |-> FALSE, panic |-> FALSE]

\* Mutant of ensure_capacity: a table whose dead slots are exactly half of it
\* is rebuilt at the same capacity
ensure_capacity_dead_at_least_half(m) ==
    IF m.number_used > m.entries.cap \div 2
    THEN rebuild(m, LET number_dead == m.entries.cap - m.number_alive
                    IN  IF number_dead >= m.entries.cap \div 2
                        THEN m.entries.cap
                        ELSE m.entries.cap * 2)
    ELSE [map |-> m, rebuilt |-> FALSE, panic |-> FALSE]

\* OpenAddressingMap::ensure_capacity: the map afterwards, whether the table
\* was rebuilt, whether the call panicked
ensure_capacity(m) ==
    IF m.number_used > m.entries.cap \div 2
    THEN rebuild(m, LET number_dead == m.entries.cap - m.number_alive
                    IN  IF number_dead > m.entries.cap \div 2
                        THEN m.entries.cap
                        ELSE m.entries.cap * 2)
    ELSE [map |-> m, rebuilt |-> FALSE, panic |-> FALSE]

\* insert_inner_growing after ensure_capacity returned e
insert_after(e, query, value) ==
    IF e.panic
    THEN [map |-> e.map, res |-> None, panic |-> TRUE]
    ELSE insert_inner(e.map, query, value)

\* OpenAddressingMap::insert_inner_growing
insert_inner_growing(m, query, value) ==
    insert_after(ensure_capacity(m), query, value)

\* OpenAddressingMap::insert
insert(m, query, value) == insert_inner_growing(m, query, value)

\* OpenAddressingMap::remove_inner_inner: the probe loop from probe i on
RECURSIVE remove_probe(_, _, _, _)
remove_probe(m, h, query, i) ==
    IF i >= m.entries.cap
    THEN [map |-> m, res |-> None, panic |-> FALSE]
    ELSE LET index == probe_index(h, i, m.entries.cap)
         IN  IF index >= m.entries.len
             THEN [map |-> m, res |-> None, panic |-> TRUE]
             ELSE LET entry == m.entries.items[index + 1]
                  IN  IF is_this(entry, query)
                      THEN LET r == entry_remove(entry)
                           IN  [map |-> [m EXCEPT !.entries.items[index + 1] = r.entry],
                                res |-> r.old, panic |-> FALSE]
                      ELSE remove_probe(m, h, query, i + 1)

remove_inner_inner(m, query) == remove_probe(m, hash(query), query, 0)

\* Mutant of remove_inner: number_alive is not decremented
remove_inner_keeps_alive(m, query) == remove_inner_inner(m, query)

\* remove_inner after remove_inner_inner returned r: a removed entry is
\* no longer counted alive
count_removed(r) ==
    IF r.res # None THEN [r EXCEPT !.map.number_alive = @ - 1] ELSE r

\* OpenAddressingMap::remove_inner
remove_inner(m, query) == count_removed(remove_inner_inner(m, query))

\* OpenAddressingMap::remove
remove(m, query) == remove_inner(m, query)

\* OpenAddressingMap::find_used / find_used_mut: the probe loop from probe i
\* on.  Yields the entry found (an Option), whether entries[index] was out of
\* bounds, and the number of entries the iterator yielded to the loop.
RECURSIVE find_probe(_, _, _, _)
find_probe(m, h, query, i) ==
    IF i >= m.entries.cap
    THEN [found |-> None, panic |-> FALSE, examined |-> i]
    ELSE LET index == probe_index(h, i, m.entries.cap)
         IN  IF index >= m.entries.len
             THEN [found |-> None, panic |-> TRUE, examined |-> i]
             ELSE LET entry == m.entries.items[index + 1]
                  IN  IF is_this(entry, query)
                      THEN [found |-> Some(entry), panic |-> FALSE, examined |-> i + 1]
                      ELSE find_probe(m, h, query, i + 1)

find_used(m, query) == find_probe(m, hash(query), query, 0)

\* OpenAddressingMap::get
get(m, query) ==
    LET f == find_used(m, query).found
    IN  IF f = None THEN None ELSE value_option(f[1])

\* OpenAddressingMap::contains_key
contains_key(m, query) == get(m, query) # None

\* Mutant of alive_entries: the iteration stops after the first alive entry
alive_entries_first(m) ==
    SubSeq(SelectSeq(m.entries.items, alive), 1, IF m.number_alive = 0 THEN 0 ELSE 1)

\* self.entries.iter().filter(|e| e.alive()): the alive entries in bucket order
alive_entries(m) == SelectSeq(m.entries.items, alive)

\* .map(|e| e.key()), .map(|e| e.value()), .map(|e| (e.key(), e.value()))
entry_keys(es) == [i \in 1 .. Len(es) |-> es[i].inner[1][1]]
entry_values(es) == [i \in 1 .. Len(es) |-> es[i].inner[1][2]]
entry_pairs(es) == [i \in 1 .. Len(es) |-> es[i].inner[1]]

\* OpenAddressingMap::keys, values and pairs: the sequence the iterator yields
keys(m) == entry_keys(alive_entries(m))
values(m) == entry_values(alive_entries(m))
pairs(m) == entry_pairs(alive_entries(m))

\* OpenAddressingMap::push_at_inner: the probe loop from probe i on
RECURSIVE push_at_probe(_, _, _, _, _)
push_at_probe(m, h, query, item, i) ==
    IF i >= m.entries.cap
    THEN [map |-> m, pushed_new |-> FALSE, panic |-> TRUE]
    ELSE LET index == probe_index(h, i, m.entries.cap)
         IN  IF index >= m.entries.len
             THEN [map |-> m, pushed_new |-> FALSE, panic |-> TRUE]
             ELSE LET entry == m.entries.items[index + 1]
                  IN  IF is_this(entry, query)
                      THEN [map |-> [m EXCEPT !.entries.items[index + 1].inner =
                                         Some(<<query, push(entry.inner[1][2], item, "Item")>>)],
                            pushed_new |-> FALSE, panic |-> FALSE]
                      ELSE IF ~used(entry)
                      THEN [map |-> [m EXCEPT !.entries.items[index + 1] =
                                         make_used(entry, h, query,
                                                   push(vec_new, item, "Item"))],
                            pushed_new |-> TRUE, panic |-> FALSE]
                      ELSE push_at_probe(m, h, query, item, i + 1)

\* push_at_inner after ensure_capacity returned e
push_at_after(e, query, item) ==
    IF e.panic
    THEN [map |-> e.map, pushed_new |-> FALSE, panic |-> TRUE]
    ELSE push_at_probe(e.map, hash(query), query, item, 0)

push_at_inner(m, query, item) == push_at_after(ensure_capacity(m), query, item)

\* Mutant of push_at: a new entry is counted alive but not used
push_at_alive_only(m, query, item) ==
    [push_at_inner(m, query, item) EXCEPT !.map.number_alive = @ + 1]

\* Mutant of count_pushed: every push_at is counted as a new entry
count_pushed_always(r) ==
    IF ~r.panic
    THEN [r EXCEPT !.map.number_alive = @ + 1, !.map.number_used = @ + 1]
    ELSE r

\* push_at after push_at_inner returned r: a new entry is counted
count_pushed(r) ==
    IF r.pushed_new /\ ~r.panic
    THEN [r EXCEPT !.map.number_alive = @ + 1, !.map.number_used = @ + 1]
    ELSE r

\* OpenAddressingMap::push_at
push_at(m, query, item) == count_pushed(push_at_inner(m, query, item))

\* IntoIterator for CompactVec and IntoIter::next, slice::Iter for
\* CompactVec::iter: the items the iterator yields, in index order
into_iter(v) == [i \in 1 .. v.len |-> v.items[i]]

\* self.get(query).into_iter().flat_map(|vec_in_option| vec_in_option.iter())
flat_iter(o) == IF o = None THEN <<>> ELSE into_iter(o[1])

\* OpenAddressingMap::get_iter: the items the iterator yields
get_iter(m, query) == flat_iter(get(m, query))

\* remove_iter after remove returned r
remove_yields(r) == [map |-> r.map, yielded |-> flat_iter(r.res), panic |-> r.panic]

\* OpenAddressingMap::remove_iter: the map afterwards and the items yielded
remove_iter(m, query) == remove_yields(remove(m, query))

\* Clone for OpenAddressingMap
clone(m) ==
    [entries |-> vec_clone(m.entries, needs_drop, "Entry"),
     number_alive |-> m.number_alive,
     number_used |-> m.number_used]

\* Compact for OpenAddressingMap::compact: the destination
compact(m) ==
    [entries |-> vec_compact(m.entries, needs_drop, "Entry"),
     number_alive |-> m.number_alive,
     number_used |-> m.number_used]

\* Compact for OpenAddressingMap::decompact
decompact(m) ==
    [entries |-> vec_decompact(m.entries, needs_drop, "Entry"),
     number_alive |-> m.number_alive,
     number_used |-> m.number_used]

\* Compact for OpenAddressingMap::is_still_compact
is_still_compact(m) ==
    vec_is_still_compact(m.entries, needs_drop, "Entry")

\* ------------------------------------------------------------ state machine

\* ------------------------------------------------- the blocks a map owns

\* The block of a value the program has just built: vec![x].into() owns a
\* block of the heap, CompactVec::new() and a plain item own none
ValueBlock(h, value) ==
    IF needs_drop /\ value.ptr = "free" THEN Len(h.count) + 1 ELSE 0
WithValue(h, value) ==
    IF needs_drop /\ value.ptr = "free" THEN allocate(h) ELSE h

\* Entry::replace_value and Entry::remove on the entry e of key k, V a
\* vector: the old value is cloned into a new block, the old value is
\* dropped when inner is assigned (the new value owns block b, 0 for None),
\* and the clone is returned to the caller, who drops it
heap_replace(h, e, k, b) ==
    [deallocate_if_free(deallocate(allocate(h), Len(h.count) + 1),
                        e.inner[1][2].ptr, h.val[k])
        EXCEPT !.val[k] = b]

\* OpenAddressingMap::ensure_capacity on m: a rebuild allocates the new table
\* (with_capacity) and drains the old one; drain decompacts it, which
\* allocates when the table is in compact storage and V is a vector, and
\* the IntoIter deallocate_if_frees what it was made of when it is dropped.
\* The values move to the new table with their blocks.
heap_ensure_capacity(h, m, rebuilt) ==
    IF ~rebuilt THEN h
    ELSE [(IF is_compact(m.entries.ptr) /\ needs_drop
           THEN deallocate(allocate(allocate(h)), Len(h.count) + 2)
           ELSE deallocate_if_free(allocate(h), m.entries.ptr, h.outer))
            EXCEPT !.outer = Len(h.count) + 1]

\* insert_inner after ensure_capacity left the map m and the heap h: the
\* value (block b) goes to a free entry, or replaces the value of key k
heap_insert_inner(h, m, k, b) ==
    LET f == find_used(m, k).found
    IN  IF f = None THEN [h EXCEPT !.val[k] = b]
        ELSE IF needs_drop THEN heap_replace(h, f[1], k, b)
        ELSE h

\* OpenAddressingMap::insert of a value just built
heap_map_insert(h, m, k, v) ==
    heap_insert_inner(
        heap_ensure_capacity(WithValue(h, v), m, ensure_capacity(m).rebuilt),
        ensure_capacity(m).map, k, ValueBlock(h, v))

\* OpenAddressingMap::remove; the value returned is dropped by the caller
heap_map_remove(h, m, k) ==
    LET f == find_used(m, k).found
    IN  IF f = None \/ ~needs_drop THEN h ELSE heap_replace(h, f[1], k, 0)

\* push_at_inner after ensure_capacity left the map m and the heap h: the
\* item is pushed onto the value of k, which grows when it is full, or onto
\* CompactVec::new(), which grows from capacity 0
heap_push_at_inner(h, m, k) ==
    LET f == find_used(m, k).found
    IN  IF f = None
        THEN [allocate(h) EXCEPT !.val[k] = Len(h.count) + 1]
        ELSE IF f[1].inner[1][2].len = f[1].inner[1][2].cap
        THEN [deallocate_if_free(allocate(h), f[1].inner[1][2].ptr, h.val[k])
                 EXCEPT !.val[k] = Len(h.count) + 1]
        ELSE h

\* OpenAddressingMap::push_at
heap_map_push_at(h, m, k) ==
    heap_push_at_inner(heap_ensure_capacity(h, m, ensure_capacity(m).rebuilt),
                       ensure_capacity(m).map, k)

\* deallocate_if_free on the pointer of the value of every alive entry
\* i .. len of the bucket array of m, V a vector
RECURSIVE heap_free_values(_, _, _)
heap_free_values(h, m, i) ==
    IF i > m.entries.len THEN h
    ELSE IF alive(m.entries.items[i])
    THEN heap_free_values(
             deallocate_if_free(h, m.entries.items[i].inner[1][2].ptr,
                                h.val[m.entries.items[i].inner[1][1]]),
             m, i + 1)
    ELSE heap_free_values(h, m, i + 1)

\* Compact for OpenAddressingMap::compact on the source m: compact of the
\* bucket array, which compacts the value of every alive entry
heap_map_compact(h, m) ==
    [deallocate_if_free(IF needs_drop THEN heap_free_values(h, m, 1) ELSE h,
                        m.entries.ptr, h.outer)
        EXCEPT !.outer = 0, !.val = [k \in Keys |-> 0]]

\* Compact for OpenAddressingMap::decompact: decompact of the bucket array;
\* the values are copied field by field
heap_map_decompact(h, m) ==
    IF is_compact(m.entries.ptr) /\ needs_drop
    THEN [allocate(h) EXCEPT !.outer = Len(h.count) + 1]
    ELSE h

\* Drop of a map: Drop for CompactVec on the bucket array, which drops the
\* value of every alive entry
heap_map_drop(h, m) ==
    [deallocate_if_free(IF needs_drop THEN heap_free_values(h, m, 1) ELSE h,
                        m.entries.ptr, h.outer)
        EXCEPT !.outer = 0, !.val = [k \in Keys |-> 0]]

\* The values insert is called with: an item when V is plain, a one-element
\* vector built by vec![x].into() when V is CompactVec<I>.
InsertValues == IF needs_drop THEN {vec_from(<<x>>) : x \in Items} ELSE Items

\* What a value looks like to a caller: the items of a vector, the plain value
AbsVal(v) == IF needs_drop THEN v.items ELSE v
AbsOpt(o) == IF o = None THEN None ELSE Some(AbsVal(o[1]))

\* The number of items the vectors of the abstract map hold, but for key k
RECURSIVE ItemsBut(_, _)
ItemsBut(k, n) ==
    IF n = 0 THEN 0
    ELSE ItemsBut(k, n - 1)
         + (IF n - 1 = k \/ model[n - 1] = None THEN 0 ELSE Len(model[n - 1][1]))

Init ==
    /\ needs_drop \in BOOLEAN
    /\ hasher \in [Keys -> HashVals]
    /\ \A j, k \in Keys : j < k => hasher[j] <= hasher[k]
    /\ \E l \in InitialCapacities : map = with_capacity(l)
    /\ panicked = FALSE
    /\ model = [k \in Keys |-> None]
    /\ script = [phase |-> "off", n |-> 0, removed |-> 0]
    /\ vec = vec_new
    /\ iter = None
    /\ visited = <<>>
    /\ heap = heap_new

\* A call returns r: the program holds r.map, unless the call panicked
Returns(r) ==
    /\ map' = r.map
    /\ panicked' = r.panic

\* map.insert(k, v)
Insert(k, v) ==
    /\ ~panicked
    /\ needs_drop => ItemsBut(k, NumKeys) + Len(v.items) <= MaxVecItems
    /\ Returns(insert(map, k, v))
    /\ model' = [model EXCEPT ![k] = Some(AbsVal(v))]
    /\ UNCHANGED <<needs_drop, hasher>>

\* map.remove(k)
Remove(k) ==
    /\ ~panicked
    /\ Returns(remove(map, k))
    /\ model' = [model EXCEPT ![k] = None]
    /\ UNCHANGED <<needs_drop, hasher>>

\* map.push_at(k, item), which exists when V is CompactVec<I>
PushAt(k, item) ==
    /\ ~panicked
    /\ needs_drop
    /\ ItemsBut(NumKeys, NumKeys) < MaxVecItems
    /\ Returns(push_at(map, k, item))
    /\ model' = [model EXCEPT ![k] =
                    IF @ = None THEN Some(<<item>>) ELSE Some(Append(@[1], item))]
    /\ UNCHANGED <<needs_drop, hasher>>

\* map = map.clone(): the program goes on with the clone
Clone ==
    /\ ~panicked
    /\ map' = clone(map)
    /\ UNCHANGED <<needs_drop, hasher, panicked, model>>

\* Compact::compact(&mut map, dest, tail); forget(map): the program goes on
\* with the map at dest
CompactMap ==
    /\ ~panicked
    /\ map' = compact(map)
    /\ UNCHANGED <<needs_drop, hasher, panicked, model>>

\* map = Compact::decompact(&map)
DecompactMap ==
    /\ ~panicked
    /\ map' = decompact(map)
    /\ UNCHANGED <<needs_drop, hasher, panicked, model>>

\* The calls of a map of any value type: insert and remove
Next ==
    /\ \/ \E k \in Keys : \E v \in InsertValues : Insert(k, v)
       \/ \E k \in Keys : Remove(k)
    /\ UNCHANGED <<script, vec, iter, visited, heap>>

Spec == Init /\ [][Next]_vars

\* A map of vectors, OpenAddressingMap<K, CompactVec<I>>, which has push_at
InitPush == Init /\ needs_drop

NextPush ==
    /\ \/ \E k \in Keys : \E v \in InsertValues : Insert(k, v)
       \/ \E k \in Keys : Remove(k)
       \/ \E k \in Keys : \E item \in Items : PushAt(k, item)
    /\ UNCHANGED <<script, vec, iter, visited, heap>>

SpecPush == InitPush /\ [][NextPush]_vars

\* The life cycle of a map through clone and the compact storage: every key
\* has the same hash, the calls are those of Spec and clone, compact, decompact.
InitLife ==
    /\ Init
    /\ \A k \in Keys : hasher[k] = 1

NextLife ==
    /\ \/ \E k \in Keys : \E v \in InsertValues : Insert(k, v)
       \/ \E k \in Keys : Remove(k)
       \/ \E k \in Keys : \E item \in Items : PushAt(k, item)
       \/ Clone
       \/ CompactMap
       \/ DecompactMap
    /\ UNCHANGED <<script, vec, iter, visited, heap>>

SpecLife == InitLife /\ [][NextLife]_vars

\* The runs of the tests
\* when_there_are_lots_of_dead_tombstoned_entries_capacity_is_not_doubled and
\* when_there_are_lots_of_few_tombstoned_entries_capacity_is_doubled on a
\* Map<usize, usize>: from new(), insert FillCount keys, remove the first
\* ManyRemoved or FewRemoved of them, insert FillCount more keys.
FillCount == 1000
ManyRemoved == 600
FewRemoved == 60
SecondKeyBase == 10000

ScriptKeys == (0 .. (FillCount - 1)) \cup (SecondKeyBase .. (SecondKeyBase + FillCount - 1))

\* elem(n) of the tests
elem(n) == n * n

\* The hashes of the scripted keys: DefaultHasher is not modelled, the keys
\* are spread by a multiplication; no two of them have the same hash.
ScriptHash(k) == (k * 7919) % 65536

InitScript ==
    /\ needs_drop = FALSE
    /\ hasher = [k \in ScriptKeys |-> ScriptHash(k)]
    /\ map = new
    /\ panicked = FALSE
    /\ model = [k \in ScriptKeys |-> None]
    /\ \E r \in {ManyRemoved, FewRemoved} :
           script = [phase |-> "fill", n |-> 0, removed |-> r]
    /\ vec = vec_new
    /\ iter = None
    /\ visited = <<>>
    /\ heap = heap_new

\* for n in 0..1000 { map.insert(n, elem(n)) }
ScriptFill ==
    /\ script.phase = "fill"
    /\ Insert(script.n, elem(script.n))
    /\ script' = IF script.n + 1 = FillCount
                 THEN [script EXCEPT !.phase = "remove", !.n = 0]
                 ELSE [script EXCEPT !.n = @ + 1]

\* for n in 0..600 { map.remove(n) }, or 0..60
ScriptRemove ==
    /\ script.phase = "remove"
    /\ Remove(script.n)
    /\ script' = IF script.n + 1 = script.removed
                 THEN [script EXCEPT !.phase = "refill", !.n = 0]
                 ELSE [script EXCEPT !.n = @ + 1]

\* for n in 0..1000 { map.insert(10000 + n, elem(n)) }
ScriptRefill ==
    /\ script.phase = "refill"
    /\ Insert(SecondKeyBase + script.n, elem(script.n))
    /\ script' = IF script.n + 1 = FillCount
                 THEN [script EXCEPT !.phase = "done", !.n = 0]
                 ELSE [script EXCEPT !.n = @ + 1]

NextScript ==
    /\ ScriptFill \/ ScriptRemove \/ ScriptRefill
    /\ UNCHANGED <<vec, iter, visited, heap>>

\* The capacity rule is checked on the states of Spec and SpecPush and on the
\* scripted runs.
InitCapacity == Init \/ InitScript

NextCapacity ==
    \/ script.phase = "off" /\ NextPush
    \/ script.phase # "off" /\ NextScript

SpecCapacity == InitCapacity /\ [][NextCapacity]_vars

\* ------------------------------------------------- the vector state machine

\* A program that holds one CompactVec<V>, vec, with V plain or, when
\* needs_drop, CompactVec<I>: a vector of vectors.  It holds at most MaxVecLen
\* elements.
MaxVecLen == 3

\* The elements the program inserts: items, or the vectors vec![x].into() and
\* CompactVec::new()
VecValues == IF needs_drop THEN InsertValues \cup {vec_new} ELSE Items

\* What a sequence of elements looks like to a caller
AbsSeq(s) == [i \in 1 .. Len(s) |-> AbsVal(s[i])]

InitVec ==
    /\ needs_drop \in BOOLEAN
    /\ hasher = [k \in Keys |-> 1]
    /\ map = new
    /\ panicked = FALSE
    /\ model = [k \in Keys |-> None]
    /\ script = [phase |-> "vec", n |-> 0, removed |-> 0]
    /\ vec \in {vec_new, vec_with_capacity(2)}
    /\ iter = None
    /\ visited = <<>>
    /\ heap = heap_new

\* A call on vec returns r: the program holds r.vec, or has panicked
VecReturns(r) ==
    /\ vec' = r.vec
    /\ panicked' = r.panic

\* vec.push(value)
VecPush(value) ==
    /\ ~panicked
    /\ vec.len < MaxVecLen
    /\ vec' = push(vec, value, "Value")
    /\ UNCHANGED panicked

\* vec.insert(index, value), in a build with or without overflow checks;
\* index may be out of range
VecInsert(index, value, overflow_checks) ==
    /\ ~panicked
    /\ vec.len < MaxVecLen
    /\ VecReturns(vec_insert(vec, index, value, "Value", overflow_checks))

\* vec.remove(index); index may be out of range
VecRemove(index) ==
    /\ ~panicked
    /\ VecReturns(vec_remove(vec, index, "Value"))

\* vec.swap_remove(index); index may be out of range
VecSwapRemove(index) ==
    /\ ~panicked
    /\ VecReturns(swap_remove(vec, index, "Value"))

\* vec.drain().collect()
VecDrain ==
    /\ ~panicked
    /\ vec' = drain(vec, needs_drop, "Value").left
    /\ UNCHANGED panicked

\* Compact::compact(&mut vec, dest, tail); forget(vec): the program goes on
\* with the vector at dest
VecCompact ==
    /\ ~panicked
    /\ vec' = vec_compact(vec, needs_drop, "Value")
    /\ UNCHANGED panicked

\* vec = Compact::decompact(&vec)
VecDecompact ==
    /\ ~panicked
    /\ vec' = vec_decompact(vec, needs_drop, "Value")
    /\ UNCHANGED panicked

NextVec ==
    /\ \/ \E value \in VecValues : VecPush(value)
       \/ \E index \in 0 .. (vec.len + 1) : \E value \in VecValues :
              \E overflow_checks \in BOOLEAN : VecInsert(index, value, overflow_checks)
       \/ \E index \in 0 .. vec.len : VecRemove(index)
       \/ \E index \in 0 .. vec.len : VecSwapRemove(index)
       \/ VecDrain
       \/ VecCompact
       \/ VecDecompact
    /\ UNCHANGED <<map, needs_drop, hasher, model, script, iter, visited, heap>>

SpecVec == InitVec /\ [][NextVec]_vars

\* What the elements of the vector driver hold
Contents == {AbsVal(value) : value \in VecValues}

\* vec.retain(|x| keep.contains(x))
VecRetain(keep) ==
    /\ ~panicked
    /\ vec' \in retain_outcomes(vec, keep, "Value")
    /\ UNCHANGED panicked

\* The vector driver with retain
NextRetain ==
    \/ NextVec
    \/ /\ \E keep \in SUBSET Contents : VecRetain(keep)
       /\ UNCHANGED <<map, needs_drop, hasher, model, script, iter, visited, heap>>

SpecRetain == InitVec /\ [][NextRetain]_vars

\* The compact storage is checked on a map made by new(), filled by insert and
\* remove, cloned and moved into and out of compact storage, and on a vector.
InitCompact == (InitLife /\ map = new) \/ InitVec

NextCompactMap ==
    /\ \/ \E k \in Keys : \E v \in InsertValues : Insert(k, v)
       \/ \E k \in Keys : Remove(k)
       \/ Clone
       \/ CompactMap
       \/ DecompactMap
    /\ UNCHANGED <<script, vec, iter, visited, heap>>

NextCompact ==
    \/ script.phase = "off" /\ NextCompactMap
    \/ script.phase = "vec" /\ NextVec

SpecCompact == InitCompact /\ [][NextCompact]_vars

\* The bucket array of a map through all of its operations: with_capacity
\* with any of the initial capacities, any hashes, plain or vector values,
\* then insert, remove, push_at (rebuilds included), clone, compact and
\* decompact.  The values do not matter to the bucket array: every insert
\* stores the same value and every push_at pushes the same item.
ChainItem == 1
ChainValues == IF needs_drop THEN {vec_from(<<ChainItem>>)} ELSE {ChainItem}

NextChain ==
    /\ \/ \E k \in Keys : \E v \in ChainValues : Insert(k, v)
       \/ \E k \in Keys : Remove(k)
       \/ \E k \in Keys : PushAt(k, ChainItem)
       \/ Clone
       \/ CompactMap
       \/ DecompactMap
    /\ UNCHANGED <<script, vec, iter, visited, heap>>

SpecChain == Init /\ [][NextChain]_vars

\* ------------------------------------------------- the probing state machine

\* A program that makes a map with_capacity(l), l in 0 .. MaxProbeCapacity,
\* and walks the probing iterator of one hash over it to its end.
MaxProbeCapacity == 13

\* The u32 hashes the iterator is made for
ProbeHashes == {0, 1, 2147483001}

InitProbe ==
    /\ needs_drop = FALSE
    /\ hasher = [k \in Keys |-> 1]
    /\ \E l \in 0 .. MaxProbeCapacity : map = with_capacity(l)
    /\ panicked = FALSE
    /\ model = [k \in Keys |-> None]
    /\ script = [phase |-> "probe", n |-> 0, removed |-> 0]
    /\ vec = vec_new
    /\ \E h \in ProbeHashes : iter = for_map(map, h)
    /\ visited = <<>>
    /\ heap = heap_new

\* The iterator yielded the entry at index: Some(&self.map.entries[index]),
\* which is bounds-checked
Yields(r) ==
    /\ r.index # None
    /\ iter' = r.iter
    /\ visited' = visited \o r.index
    /\ panicked' = (r.index[1] >= map.entries.len)

\* iter.next(), until it returns None
ProbeNext ==
    /\ ~panicked
    /\ Yields(iter_next(iter))
    /\ UNCHANGED <<map, needs_drop, hasher, model, script, vec, heap>>

NextProbe == ProbeNext

SpecProbe == InitProbe /\ [][NextProbe]_vars

\* The life of one vector and of the blocks it owns: made by new() or
\* with_capacity(2), grown by push and insert, shrunk by remove, moved into
\* compact storage (the source forgotten), taken out again by decompact, and
\* dropped.
MaxBlocks == 6

InitOwn ==
    /\ needs_drop \in BOOLEAN
    /\ hasher = [k \in Keys |-> 1]
    /\ map = new
    /\ panicked = FALSE
    /\ model = [k \in Keys |-> None]
    /\ script = [phase |-> "own", n |-> 0, removed |-> 0]
    /\ \/ vec = vec_new /\ heap = heap_new
       \/ vec = vec_with_capacity(2) /\ heap = [allocate(heap_new) EXCEPT !.outer = 1]
    /\ iter = None
    /\ visited = <<>>

\* A call that may allocate two blocks
Owned ==
    /\ script.phase = "own"
    /\ Len(heap.count) + 2 <= MaxBlocks

\* vec.push(value) of a value just built
OwnPush(value) ==
    /\ Owned
    /\ vec.len < MaxVecLen
    /\ vec' = push(vec, value, "Value")
    /\ heap' = heap_push(WithValue(heap, value), vec, ValueBlock(heap, value))
    /\ UNCHANGED script

\* vec.insert(index, value) of a value just built, index <= len
OwnInsert(index, value) ==
    /\ Owned
    /\ vec.len < MaxVecLen
    /\ vec' = vec_insert(vec, index, value, "Value", TRUE).vec
    /\ heap' = heap_insert(WithValue(heap, value), vec, index, ValueBlock(heap, value))
    /\ UNCHANGED script

\* Compact::compact(&mut vec, dest, tail); forget(vec): the program goes on
\* with the vector at dest
OwnCompact ==
    /\ Owned
    /\ vec' = vec_compact(vec, needs_drop, "Value")
    /\ heap' = heap_compact(heap, vec, needs_drop)
    /\ UNCHANGED script

\* vec = Compact::decompact(&vec), of a vector in compact storage
OwnDecompact ==
    /\ Owned
    /\ is_compact(vec.ptr)
    /\ vec' = vec_decompact(vec, needs_drop, "Value")
    /\ heap' = heap_decompact(heap, vec, needs_drop)
    /\ UNCHANGED script

\* drop(vec)
OwnDrop ==
    /\ script.phase = "own"
    /\ vec' = vec_new
    /\ heap' = heap_drop(heap, vec, needs_drop)
    /\ script' = [script EXCEPT !.phase = "dropped"]

NextOwn ==
    /\ \/ \E value \in VecValues : OwnPush(value)
       \/ \E index \in 0 .. vec.len : \E value \in VecValues : OwnInsert(index, value)
       \/ OwnCompact
       \/ OwnDecompact
       \/ OwnDrop
    /\ UNCHANGED <<map, needs_drop, hasher, panicked, model, iter, visited>>

SpecOwn == InitOwn /\ [][NextOwn]_vars

\* The life of one map and of the blocks it owns: made by with_capacity,
\* changed by insert, remove and push_at (rebuilds included), moved into
\* compact storage (the source forgotten), taken out again by decompact, and
\* dropped.  The items do not matter to the blocks: every insert stores the
\* same value and every push_at pushes the same item.
MaxMapBlocks == 9

InitOwnMap ==
    /\ needs_drop \in BOOLEAN
    /\ hasher \in [Keys -> HashVals]
    /\ \A j, k \in Keys : j < k => hasher[j] <= hasher[k]
    /\ \E l \in InitialCapacities : map = with_capacity(l)
    /\ panicked = FALSE
    /\ model = [k \in Keys |-> None]
    /\ script = [phase |-> "mapown", n |-> 0, removed |-> 0]
    /\ vec = vec_new
    /\ iter = None
    /\ visited = <<>>
    /\ heap = [allocate(heap_new) EXCEPT !.outer = 1]

\* A call that may allocate four blocks: the value, the new table, the
\* decompacted old table and the clone of the old value
MapOwned ==
    /\ script.phase = "mapown"
    /\ Len(heap.count) + 4 <= MaxMapBlocks

\* map.insert(k, v) of a value just built
OwnMapInsert(k, v) ==
    /\ MapOwned
    /\ Insert(k, v)
    /\ heap' = heap_map_insert(heap, map, k, v)
    /\ UNCHANGED script

\* map.remove(k)
OwnMapRemove(k) ==
    /\ MapOwned
    /\ Remove(k)
    /\ heap' = heap_map_remove(heap, map, k)
    /\ UNCHANGED script

\* map.push_at(k, item)
OwnMapPushAt(k, item) ==
    /\ MapOwned
    /\ PushAt(k, item)
    /\ heap' = heap_map_push_at(heap, map, k)
    /\ UNCHANGED script

\* Compact::compact(&mut map, dest, tail); forget(map)
OwnMapCompact ==
    /\ MapOwned
    /\ CompactMap
    /\ heap' = heap_map_compact(heap, map)
    /\ UNCHANGED script

\* map = Compact::decompact(&map), of a map in compact storage
OwnMapDecompact ==
    /\ MapOwned
    /\ is_compact(map.entries.ptr)
    /\ DecompactMap
    /\ heap' = heap_map_decompact(heap, map)
    /\ UNCHANGED script

\* drop(map)
OwnMapDrop ==
    /\ script.phase = "mapown"
    /\ ~panicked
    /\ heap' = heap_map_drop(heap, map)
    /\ script' = [script EXCEPT !.phase = "dropped"]
    /\ UNCHANGED <<map, needs_drop, hasher, panicked, model>>

NextOwnMap ==
    /\ \/ \E k \in Keys : \E v \in ChainValues : OwnMapInsert(k, v)
       \/ \E k \in Keys : OwnMapRemove(k)
       \/ \E k \in Keys : OwnMapPushAt(k, ChainItem)
       \/ OwnMapCompact
       \/ OwnMapDecompact
       \/ OwnMapDrop
    /\ UNCHANGED <<vec, iter, visited>>

\* The blocks of a vector and of a map, from creation to drop
InitOwnership == InitOwn \/ InitOwnMap

NextOwnership ==
    \/ script.phase = "own" /\ NextOwn
    \/ script.phase = "mapown" /\ NextOwnMap

SpecOwnership == InitOwnership /\ [][NextOwnership]_vars

\* The tail layout is checked on the vectors of SpecOwn and on the bucket
\* arrays of the maps of SpecChain.
InitLayout == Init \/ InitOwn

NextLayout ==
    \/ script.phase = "off" /\ NextChain
    \/ script.phase = "own" /\ NextOwn

SpecLayout == InitLayout /\ [][NextLayout]_vars

\* ------------------------------------------------------------------- claims

\* The entries of the bucket array, by Rust index
Slots(m) == 1 .. m.entries.len
TombstoneIn(m) == \E i \in Slots(m) : m.entries.items[i].tombstoned

\* C1: after any sequence of insert and remove calls, rebuilds
\* included, get(k) is the value of the latest insert of k not followed by a
\* remove of k, and absent for every other key: the contents seen through get
\* are those of the abstract map driven by the same calls.
C1_GetRefinesAbstractMap ==
    \A k \in Keys : AbsOpt(get(map, k)) = model[k]

\* A rebuilt table (capacity 7 is only reached by growing from 3) that holds
\* a tombstone, a present key and an absent one.
C1_Witness ==
    /\ capacity(map) = 7
    /\ TombstoneIn(map)
    /\ \E j, k \in Keys : get(map, j) # None /\ get(map, k) = None

\* C2: remove(k) returns what get(k) returned before the call (the stored
\* value for a present key, absent otherwise); afterwards get(k) is absent,
\* contains_key(k) is false and every other key reads as before.
C2_RemoveThenLookup ==
    \A k \in Keys :
        LET r == remove(map, k)
        IN  /\ ~r.panic
            /\ r.res = get(map, k)
            /\ get(r.map, k) = None
            /\ ~contains_key(r.map, k)
            /\ \A j \in Keys \ {k} : get(r.map, j) = get(map, j)

\* A key was removed (its tombstone carries its hash) while another key,
\* with the same hash, is present.
C2_Witness ==
    \E j, k \in Keys :
        /\ j # k
        /\ hasher[j] = hasher[k]
        /\ contains_key(map, j)
        /\ ~contains_key(map, k)
        /\ \E i \in Slots(map) :
               map.entries.items[i].tombstoned /\ map.entries.items[i].hash = hash(k)

\* C3: insert(k, v) returns the value stored for k before the call, absent
\* when k was not present; len() grows by exactly 1 when k was not present
\* and is unchanged when it was.
C3_InsertReturnsPrevious ==
    \A k \in Keys : \A v \in InsertValues :
        LET r == insert(map, k, v)
        IN  /\ ~r.panic
            /\ r.res = get(map, k)
            /\ len(r.map) = len(map) + (IF contains_key(map, k) THEN 0 ELSE 1)

\* A present key and an absent key, in a table the next insert rebuilds.
C3_Witness ==
    /\ map.number_used > capacity(map) \div 2
    /\ \E j, k \in Keys : contains_key(map, j) /\ ~contains_key(map, k)

\* C4: in every state reached by insert, remove and push_at calls, len() is
\* the number of keys k for which contains_key(k) is true.
C4_LenCountsKeys ==
    len(map) = Cardinality({k \in Keys : contains_key(map, k)})

\* A map of vectors after a remove and a push_at onto a present key.
C4_Witness ==
    /\ needs_drop
    /\ TombstoneIn(map)
    /\ \E k \in Keys : model[k] # None /\ Len(model[k][1]) = 2

\* C5: no two alive entries hold the same key.
C5_NoDuplicateKeys ==
    \A i, j \in Slots(map) :
        (/\ i # j
         /\ alive(map.entries.items[i])
         /\ alive(map.entries.items[j]))
        => map.entries.items[i].inner[1][1] # map.entries.items[j].inner[1][1]

\* The state after insert(a, _), insert(b, _), remove(a), insert(b, _) for two
\* keys of the same hash: a's slot is a tombstone, b is alive exactly once.
C5_Witness ==
    \E a, b \in Keys :
        /\ a # b
        /\ hasher[a] = hasher[b]
        /\ model[a] = None
        /\ Cardinality({i \in Slots(map) : is_this(map.entries.items[i], b)}) = 1
        /\ map.number_used = 2
        /\ map.number_alive = 1
        /\ \E i \in Slots(map) :
               map.entries.items[i].tombstoned /\ map.entries.items[i].hash = hash(a)

\* C6: no call has panicked.  Every insert and push_at call made from a
\* reachable state is a step of the specification, and a call that exhausts
\* its cap probes ("should have place", "should always have place") or reads
\* outside the bucket array leaves panicked set.
C6_ProbeNeverExhausted == ~panicked

\* A table as full as it gets, tombstones included.
C6_Witness ==
    /\ map.number_used = capacity(map) \div 2 + 1
    /\ TombstoneIn(map)
    /\ map.number_alive >= 1

\* C7: the capacity of the map is a prime number in every reachable state,
\* after with_capacity, insert, push_at (rebuilds included), remove, clone,
\* compact and decompact.
C7_CapacityPrime ==
    /\ capacity(map) >= 2
    /\ \A d \in 2 .. (capacity(map) - 1) : capacity(map) % d # 0

\* A table that grew (3 to 7) and was then moved to compact storage.
C7_Witness ==
    /\ capacity(map) = 7
    /\ map.entries.ptr = "compact"
    /\ map.number_alive >= 1

\* C8: number_alive is the number of alive entries of the bucket array and
\* number_used the number of alive or tombstoned ones; hence
\* number_alive <= number_used <= entries.cap.
C8_CountersExact ==
    /\ map.number_alive =
           Cardinality({i \in Slots(map) : alive(map.entries.items[i])})
    /\ map.number_used =
           Cardinality({i \in Slots(map) : used(map.entries.items[i])})
    /\ map.number_alive <= map.number_used
    /\ map.number_used <= map.entries.cap

\* A map of vectors holding alive and tombstoned entries.
C8_Witness ==
    /\ needs_drop
    /\ map.number_alive >= 1
    /\ map.number_used > map.number_alive

\* C9: ensure_capacity leaves number_used <= capacity / 2, and right after
\* every insert and push_at call number_used <= capacity / 2 + 1.  Every
\* state but the initial ones follows a call, and remove changes neither
\* number_used nor the capacity.
C9_UsedAfterInsert ==
    /\ LET e == ensure_capacity(map)
       IN  e.map.number_used <= capacity(e.map) \div 2
    /\ map.number_used <= capacity(map) \div 2 + 1

\* The bound is attained: number_used = capacity / 2 + 1 after an insert.
C9_Witness ==
    /\ map.number_used = capacity(map) \div 2 + 1
    /\ map.number_alive = map.number_used

\* The smallest prime >= n, by its definition
SmallestPrimeFrom(n) ==
    CHOOSE p \in n .. (2 * n) :
        /\ \A d \in 2 .. (p - 1) : p % d # 0
        /\ \A q \in n .. (p - 1) : \E d \in 2 .. (q - 1) : q % d = 0

\* C10: ensure_capacity rebuilds the table exactly when number_used > cap/2;
\* the capacity after the rebuild is cap when cap - number_alive > cap/2 and
\* the smallest prime >= 2*cap otherwise (re-inserting the alive entries grows
\* it no further), and without a rebuild the map is left as it is.  From
\* new(): 1000 distinct inserts give capacity 3203; removing 600 of the keys
\* and inserting 1000 new ones leaves capacity 3203; removing 60 and
\* inserting 1000 new ones ends at capacity 6421.
C10_RebuildRule ==
    /\ LET cap == capacity(map)
           e == ensure_capacity(map)
       IN  /\ e.rebuilt <=> map.number_used > cap \div 2
           /\ e.rebuilt =>
                  capacity(e.map) = IF cap - map.number_alive > cap \div 2
                                    THEN cap
                                    ELSE SmallestPrimeFrom(2 * cap)
           /\ ~e.rebuilt => e.map = map
    /\ (script.phase = "remove" /\ script.n = 0) =>
           capacity(map) = 3203 /\ len(map) = FillCount
    /\ (script.phase = "refill" /\ script.n = 0) =>
           /\ capacity(map) = 3203
           /\ len(map) = FillCount - script.removed
           /\ map.number_used = FillCount
    /\ script.phase = "done" =>
           /\ len(map) = 2 * FillCount - script.removed
           /\ capacity(map) = IF script.removed = ManyRemoved THEN 3203 ELSE 6421

\* The scripted run after its 1000 distinct inserts from new(): the table
\* was rebuilt at every doubling on the way to capacity 3203.
C10_Witness ==
    /\ script.phase = "remove"
    /\ script.n = 0
    /\ len(map) = FillCount
    /\ capacity(map) = 3203

\* What the pairs of a map look like to a caller
AbsPairs(ps) == [i \in 1 .. Len(ps) |-> <<ps[i][1], AbsVal(ps[i][2])>>]

\* Two maps are observationally equal: same len, same pairs, same get results
SameMap(a, b) ==
    /\ len(a) = len(b)
    /\ AbsPairs(pairs(a)) = AbsPairs(pairs(b))
    /\ \A k \in Keys : AbsOpt(get(a, k)) = AbsOpt(get(b, k))

\* Two vectors are observationally equal: same length, same elements in order
SameVec(a, b) ==
    /\ a.len = b.len
    /\ AbsSeq(a.items) = AbsSeq(b.items)

\* The map c compacted from m, and the map decompacted from c, read as m does
MapRoundTrip(c, m) ==
    /\ SameMap(c, m)
    /\ SameMap(decompact(c), m)

\* The vector c compacted from v, and the vector decompacted from c, read as
\* v does
VecRoundTrip(c, v) ==
    /\ SameVec(c, v)
    /\ SameVec(vec_decompact(c, needs_drop, "Value"), v)

FreeMode(r, nd, T) ==
    r.ptr # "null" => (r.ptr = "free" /\ ~vec_is_still_compact(r, nd, T))

\* C12: decompact returns an object in free mode for every source.  For the
\* map and the vector the program holds, in compact or in free mode and with
\* plain or vector elements, is_still_compact is false on what decompact
\* returns and its storage is a heap block, not memory of the compact region.
C12_DecompactIsFree ==
    /\ FreeMode(decompact(map).entries, needs_drop, "Entry")
    /\ FreeMode(vec_decompact(vec, needs_drop, "Value"), needs_drop, "Value")

\* The destination dst of compact(src, dst, tail) is still compact: its
\* pointer is in compact mode, its len and cap are those of src and each of
\* its elements is still compact
StillCompact(dst, src, nd, T) ==
    /\ vec_is_still_compact(dst, nd, T)
    /\ dst.ptr = "compact"
    /\ dst.len = src.len
    /\ dst.cap = src.cap
    /\ \A i \in 1 .. dst.len : elem_is_still_compact(T, dst.items[i])

\* The map dst compacted from src is still compact
MapStillCompact(dst, src) ==
    /\ is_still_compact(dst)
    /\ StillCompact(dst.entries, src.entries, needs_drop, "Entry")

\* C13: after compact(src, dst, tail) on the map or the vector the program
\* holds (plain or vector elements, free and tombstoned entries included),
\* is_still_compact(dst) is true: the pointer of dst is in compact mode, dst
\* has the len and cap of src and every element of dst is still compact.
C13_CompactIsStillCompact ==
    /\ MapStillCompact(compact(map), map)
    /\ StillCompact(vec_compact(vec, needs_drop, "Value"), vec, needs_drop, "Value")

\* A vector of vectors in free mode that has spare capacity and holds an
\* empty vector and a vector in free mode: what compact is then given.
C13_Witness ==
    /\ script.phase = "vec"
    /\ needs_drop
    /\ vec.ptr = "free"
    /\ vec.len < vec.cap
    /\ \E i, j \in 1 .. vec.len :
           vec.items[i].ptr = "null" /\ vec.items[j].ptr = "free"

\* Every block of storage of the map c is a heap block in free mode: that of
\* the bucket array and, when the values are vectors, that of every value
AllFree(c) ==
    /\ c.entries.ptr = "free"
    /\ needs_drop =>
           \A i \in Slots(c) :
               alive(c.entries.items[i]) => c.entries.items[i].inner[1][2].ptr = "free"

\* The map c is a clone of m
ClonedFrom(c, m) ==
    /\ c.number_alive = m.number_alive
    /\ c.number_used = m.number_used
    /\ capacity(c) = capacity(m)
    /\ SameMap(c, m)
    /\ AllFree(c)
    /\ ~is_still_compact(c)

Pushed(k) == IF model[k] = None THEN <<>> ELSE model[k][1]

\* push_at(k, item) returned r: k holds the items pushed so far and then
\* item, and len grew by one exactly when k was absent
PushedAt(r, k, item) ==
    /\ ~r.panic
    /\ get_iter(r.map, k) = Append(Pushed(k), item)
    /\ len(r.map) = len(map) + (IF model[k] = None THEN 1 ELSE 0)

\* remove_iter(k) returned r: it yielded the items of k and k is absent
RemovedIter(r, k) ==
    /\ ~r.panic
    /\ r.yielded = Pushed(k)
    /\ ~contains_key(r.map, k)
    /\ get_iter(r.map, k) = <<>>

\* C15: for a map of vectors, in every state reached by insert, push_at and
\* remove calls (rebuilds included) get_iter(k) yields exactly the items
\* pushed at k since k was last absent, in push order, and nothing for an
\* absent key; push_at on an absent key makes a one-element vector and grows
\* len by 1, on a present key it appends and leaves len alone; remove_iter(k)
\* yields the same sequence as get_iter(k) and leaves k absent.
C15_PushAtRefinesSequences ==
    \A k \in Keys :
        /\ get_iter(map, k) = Pushed(k)
        /\ \A item \in Items : PushedAt(push_at(map, k, item), k, item)
        /\ RemovedIter(remove_iter(map, k), k)

\* Two different items were pushed at a key, the larger one first, while
\* another key was removed: its slot is a tombstone.
C15_Witness ==
    /\ needs_drop
    /\ TombstoneIn(map)
    /\ \E k \in Keys :
           /\ Len(Pushed(k)) = 2
           /\ Pushed(k)[1] > Pushed(k)[2]
           /\ get_iter(map, k) = Pushed(k)

\* The positions at which the sequence s holds x
Positions(s, x) == {i \in 1 .. Len(s) : s[i] = x}

\* C16: in every reachable state of the map keys(), values() and pairs()
\* each yield exactly one item per alive entry: every present key exactly
\* once, no removed key and nothing for a free slot; pairs() yields each key
\* with the value get returns for it, values() the values in the same order;
\* on an empty map they yield nothing.
C16_IteratorsYieldAliveEntries ==
    /\ Len(keys(map)) = len(map)
    /\ Len(values(map)) = len(map)
    /\ Len(pairs(map)) = len(map)
    /\ len(map) = Cardinality({i \in Slots(map) : alive(map.entries.items[i])})
    /\ \A k \in Keys :
           Cardinality(Positions(keys(map), k)) = (IF model[k] = None THEN 0 ELSE 1)
    /\ \A i \in 1 .. Len(pairs(map)) :
           /\ pairs(map)[i] = <<keys(map)[i], values(map)[i]>>
           /\ get(map, pairs(map)[i][1]) = Some(pairs(map)[i][2])
           /\ model[pairs(map)[i][1]] = Some(AbsVal(pairs(map)[i][2]))

\* Two present keys and the tombstone of an earlier removal.
C16_Witness ==
    /\ len(map) = 2
    /\ TombstoneIn(map)
    /\ Len(keys(map)) = 2

\* The arguments with_capacity is checked for are 0 .. MaxCapacityArg
MaxCapacityArg == 12

\* p has no divisor but 1 and itself
HasNoDivisor(p) == p >= 2 /\ \A d \in 2 .. (p - 1) : p % d # 0

\* The smallest prime >= n, for every n >= 0
LeastPrimeAtLeast(n) ==
    CHOOSE p \in 2 .. (2 * n + 2) :
        /\ p >= n
        /\ HasNoDivisor(p)
        /\ \A q \in n .. (p - 1) : ~HasNoDivisor(q)

\* The map m is empty and has c entries, all of them free
EmptyOfCapacity(m, c) ==
    /\ m.number_alive = 0
    /\ m.number_used = 0
    /\ len(m) = 0
    /\ capacity(m) = c
    /\ m.entries.len = c
    /\ \A i \in Slots(m) : free(m.entries.items[i])

\* C17: with_capacity(n) creates an empty map, number_alive = number_used = 0
\* and every entry free, whose capacity is find_next_prime(n), the smallest
\* prime >= n and so at least 2: 0, 1 and 2 all give 2; new() gives capacity
\* 5.  The map of a program that has not inserted yet is such a map.
C17_WithCapacityEmptyPrime ==
    /\ \A n \in 0 .. MaxCapacityArg :
           /\ EmptyOfCapacity(with_capacity(n), find_next_prime(n))
           /\ find_next_prime(n) = LeastPrimeAtLeast(n)
           /\ find_next_prime(n) >= 2
    /\ \A n \in {0, 1, 2} : capacity(with_capacity(n)) = 2
    /\ EmptyOfCapacity(new, 5)
    /\ (model = [k \in DOMAIN model |-> None] /\ ~TombstoneIn(map)) =>
           EmptyOfCapacity(map, capacity(map))
    /\ (script.phase = "fill" /\ script.n = 0) => map = new

\* The program holds the map with_capacity(0) made: nothing was inserted and
\* the capacity is 2.
C17_Witness ==
    /\ script.phase = "off"
    /\ map = with_capacity(0)
    /\ capacity(map) = 2
    /\ model = [k \in Keys |-> None]

\* drain() returned d: it yielded the elements of v in index order, each
\* once, and left a vector equal to new()
Drained(d, v) ==
    /\ Len(d.yielded) = v.len
    /\ AbsSeq(d.yielded) = AbsSeq(v.items)
    /\ d.left = vec_new
    /\ d.left.len = 0
    /\ d.left.cap = 0
    /\ d.left.ptr = "null"

\* C18: drain() on the vector yields every element exactly once in index
\* order and leaves the vector equal to new(), len == 0, cap == 0 and a null
\* pointer, whatever its length, capacity and storage mode were.
C18_DrainYieldsAllLeavesNew ==
    Drained(drain(vec, needs_drop, "Value"), vec)

\* A vector of vectors in compact storage with spare capacity, holding two
\* elements of different contents, the second of them empty.
C18_Witness ==
    /\ script.phase = "vec"
    /\ needs_drop
    /\ vec.ptr = "compact"
    /\ vec.len = 2
    /\ vec.cap > vec.len
    /\ vec.items[1].len = 1
    /\ vec.items[2].len = 0

\* insert(i, v) returned r on the vector holding s: it holds
\* s[0..i] ++ [v] ++ s[i..len]
Inserted(r, s, i, v) ==
    /\ ~r.panic
    /\ r.vec.len = Len(s) + 1
    /\ AbsSeq(r.vec.items) = AbsSeq(SubSeq(s, 1, i) \o <<v>> \o SubSeq(s, i + 1, Len(s)))

\* remove(i) returned r on the vector holding s: it returned s[i] and the
\* vector holds s[0..i] ++ s[i+1..len]
Removed(r, s, i) ==
    /\ ~r.panic
    /\ AbsSeq(r.ret) = <<AbsVal(s[i + 1])>>
    /\ r.vec.len = Len(s) - 1
    /\ AbsSeq(r.vec.items) = AbsSeq(SubSeq(s, 1, i) \o SubSeq(s, i + 2, Len(s)))

\* C19: for the vector holding the sequence s, insert(i, v) with
\* 0 <= i <= len yields s[0..i] ++ [v] ++ s[i..len], with and without
\* overflow checks, and remove(i) with 0 <= i < len returns s[i] and yields
\* s[0..i] ++ s[i+1..len]: no other element changes value or place, also
\* when the elements are vectors and when the insert grows the buffer.
C19_InsertRemoveShift ==
    /\ \A i \in 0 .. vec.len : \A v \in VecValues : \A overflow_checks \in BOOLEAN :
           Inserted(vec_insert(vec, i, v, "Value", overflow_checks), vec.items, i, v)
    /\ \A i \in 0 .. (vec.len - 1) :
           Removed(vec_remove(vec, i, "Value"), vec.items, i)

\* A full vector of two different vectors, one of them in compact storage:
\* an insert grows the buffer and moves both of them.
C19_Witness ==
    /\ script.phase = "vec"
    /\ needs_drop
    /\ ~panicked
    /\ vec.len = 2
    /\ vec.cap = 2
    /\ vec.items[1].items # vec.items[2].items
    /\ \E i \in 1 .. 2 : vec.items[i].ptr = "compact"

\* The call that returned r panicked before it wrote an element slot
PanickedFirst(r) == r.panic /\ r.written = 0

\* C20: an index out of bounds is fatal.  On the vector the program holds,
\* insert(i, v) with i > len, remove(i) with i >= len and swap_remove(i) with
\* i >= len each panic, in every build, and do so before any element slot of
\* the vector is written.
C20_OutOfBoundsPanicsFirst ==
    /\ \A i \in (vec.len + 1) .. (vec.len + 2) : \A v \in VecValues :
           \A overflow_checks \in BOOLEAN :
               PanickedFirst(vec_insert(vec, i, v, "Value", overflow_checks))
    /\ \A i \in vec.len .. (vec.len + 1) :
           /\ PanickedFirst(vec_remove(vec, i, "Value"))
           /\ PanickedFirst(swap_remove(vec, i, "Value"))

\* The bucket count of the iterator the program walks
ProbeCount == iter.number_used

\* C21 as stated: the indices the iterator has yielded are pairwise
\* distinct, so that its N probes visit all N slots of the table.
C21_ProbesPairwiseDistinct ==
    \A a, b \in 1 .. Len(visited) : a # b => visited[a] # visited[b]

\* C21, amended: for a prime bucket count N and a hash h the first N/2 + 1
\* probed indices (h + i*i) mod N, i = 0 .. N/2, are pairwise distinct; every
\* later probe i repeats the index of probe N - i, so the N probes visit
\* exactly N/2 + 1 slots: all of them only when N = 2.
C21_FirstHalfDistinct ==
    /\ \A a, b \in 1 .. Len(visited) :
           (a < b /\ b <= ProbeCount \div 2 + 1) => visited[a] # visited[b]
    /\ \A b \in 1 .. Len(visited) :
           b > ProbeCount \div 2 + 1 => visited[b] = visited[ProbeCount - b + 2]
    /\ Len(visited) = ProbeCount =>
           Cardinality({visited[a] : a \in 1 .. Len(visited)}) = ProbeCount \div 2 + 1

\* The iterator of a large hash over a table of 13 buckets reached its end.
C21_Witness ==
    /\ script.phase = "probe"
    /\ ProbeCount = 13
    /\ iter.hash > 13
    /\ iter.i = ProbeCount
    /\ Len(visited) = 13

\* The call that returned r left both counters of the map as they were
CountersKept(r) ==
    /\ ~r.panic
    /\ r.map.number_alive = map.number_alive
    /\ r.map.number_used = map.number_used

\* insert(k, v) returned r: k holds v and the value k held was returned
Overwritten(r, k, v) ==
    /\ ~r.panic
    /\ AbsOpt(get(r.map, k)) = Some(AbsVal(v))
    /\ AbsOpt(r.res) = model[k]
    /\ r.res # None

OverwrittenKept(r, k, v) == Overwritten(r, k, v) /\ CountersKept(r)

\* C22 as stated: insert(k, v) and push_at(k, item) on a key that is alive
\* leave number_alive and number_used as they were before the call; insert
\* overwrites the value and returns the prior one.
C22_PresentKeyKeepsCounters ==
    \A k \in Keys :
        contains_key(map, k) =>
            /\ \A v \in InsertValues : OverwrittenKept(insert(map, k, v), k, v)
            /\ needs_drop => \A item \in Items : CountersKept(push_at(map, k, item))

\* The call that returned r, ensure_capacity at its start included, left
\* number_alive as it was; number_used is as it was when the table was not
\* rebuilt and is number_alive when it was
CountersKeptButRebuild(r) ==
    /\ ~r.panic
    /\ r.map.number_alive = map.number_alive
    /\ r.map.number_used = IF map.number_used > capacity(map) \div 2
                           THEN map.number_alive
                           ELSE map.number_used
    /\ map.number_used <= capacity(map) \div 2 => capacity(r.map) = capacity(map)

OverwrittenKeptButRebuild(r, k, v) ==
    Overwritten(r, k, v) /\ CountersKeptButRebuild(r)

\* C22, amended: insert(k, v) for a key that is alive overwrites the stored
\* value, returns the prior value and leaves number_alive as it was;
\* number_used is left as it was unless the ensure_capacity at the start of
\* the call rebuilt the table (number_used > cap/2), which drops the
\* tombstones: then number_used is number_alive afterwards.  The same holds
\* of push_at(k, item) on a present key.
C22_PresentKeyCounters ==
    \A k \in Keys :
        contains_key(map, k) =>
            /\ \A v \in InsertValues :
                   OverwrittenKeptButRebuild(insert(map, k, v), k, v)
            /\ needs_drop =>
                   \A item \in Items : CountersKeptButRebuild(push_at(map, k, item))

\* A present key in a map of vectors that holds a tombstone and that the next
\* insert or push_at rebuilds, and room for one more item.
C22_Witness ==
    /\ needs_drop
    /\ map.number_used > capacity(map) \div 2
    /\ map.number_used > map.number_alive
    /\ ItemsBut(NumKeys, NumKeys) < MaxVecItems
    /\ \E k \in Keys : contains_key(map, k)

\* The first probe i .. cap - 1 of the walk of hash h over m that meets a free
\* entry, cap when there is none
RECURSIVE FirstFree(_, _, _)
FirstFree(m, h, i) ==
    IF i >= m.entries.cap THEN i
    ELSE IF free(m.entries.items[probe_index(h, i, m.entries.cap) + 1]) THEN i
    ELSE FirstFree(m, h, i + 1)

\* The walk of hash h over m reaches the entry at index before a free entry
ReachedBeforeFree(m, h, index) ==
    \E i \in 0 .. (FirstFree(m, h, 0) - 1) : probe_index(h, i, m.entries.cap) = index

\* C23: probe-chain invariant.  In every state reached by with_capacity,
\* insert, remove, push_at (rebuilds included), clone, compact and decompact,
\* for every alive entry e with key k the cached hash of e is hash(k), and
\* the walk (hash + i*i) mod cap from i = 0 reaches the slot of e before it
\* reaches a free slot.
C23_ProbeChain ==
    \A s \in Slots(map) :
        alive(map.entries.items[s]) =>
            /\ map.entries.items[s].hash = hash(map.entries.items[s].inner[1][1])
            /\ ReachedBeforeFree(map, map.entries.items[s].hash, s - 1)

\* A map in compact storage with an alive entry that is not at the first
\* probe of its key: that slot is the tombstone of a removed key with the
\* same hash, and the hash is not the default of a free entry.
C23_Witness ==
    /\ map.entries.ptr = "compact"
    /\ \E s \in Slots(map) :
           /\ alive(map.entries.items[s])
           /\ map.entries.items[s].hash > capacity(map)
           /\ probe_index(map.entries.items[s].hash, 0, capacity(map)) # s - 1
           /\ map.entries.items[
                  probe_index(map.entries.items[s].hash, 0, capacity(map)) + 1].tombstoned

\* Every entry of m is free, alive or tombstoned and not two of these: a
\* tombstoned entry holds no key/value
TriState(m) ==
    \A s \in Slots(m) :
        LET e == m.entries.items[s]
        IN  /\ Cardinality({t \in {"free", "alive", "tombstoned"} :
                    \/ t = "free" /\ free(e)
                    \/ t = "alive" /\ alive(e)
                    \/ t = "tombstoned" /\ e.tombstoned}) = 1
            /\ e.tombstoned => e.inner = None

\* Every tombstoned slot of a is a tombstoned slot of b, which has the same
\* bucket count
TombstonesKept(a, b) ==
    /\ capacity(b) = capacity(a)
    /\ \A s \in Slots(a) :
           a.entries.items[s].tombstoned =>
               b.entries.items[s].tombstoned /\ b.entries.items[s].inner = None

\* insert or push_at returned r: the tombstones are where they were unless
\* ensure_capacity rebuilt the table, which leaves none
KeptUnlessRebuilt(r) ==
    /\ ~r.panic
    /\ IF map.number_used > capacity(map) \div 2
       THEN ~TombstoneIn(r.map)
       ELSE TombstonesKept(map, r.map)

\* C24: every entry is in exactly one of the states free, alive and
\* tombstoned, a tombstoned entry holding no key/value; a slot that is
\* tombstoned is still tombstoned after every remove, and after every insert
\* and push_at whose ensure_capacity does not rebuild the table: no key is
\* placed in a tombstoned slot, and the tombstones go only with a rebuild.
C24_TombstonesStay ==
    /\ TriState(map)
    /\ \A k \in Keys :
           /\ TombstonesKept(map, remove(map, k).map)
           /\ \A v \in InsertValues : KeptUnlessRebuilt(insert(map, k, v))
           /\ needs_drop => \A item \in Items : KeptUnlessRebuilt(push_at(map, k, item))

\* The first probe of an absent key is a tombstone, and the next insert does
\* not rebuild the table: the key goes to a later slot.
C24_Witness ==
    /\ map.number_used <= capacity(map) \div 2
    /\ \E k \in Keys :
           /\ ~contains_key(map, k)
           /\ map.entries.items[probe_index(hash(k), 0, capacity(map)) + 1].tombstoned

\* The set of key/value pairs of m, as a caller sees them
PairSet(ps) == {<<ps[i][1], AbsVal(ps[i][2])>> : i \in 1 .. Len(ps)}

\* ensure_capacity returned e on the map m: if it rebuilt the table, the new
\* table holds the pairs of m and nothing else
RebuiltFrom(e, m) ==
    e.rebuilt =>
        /\ ~e.panic
        /\ PairSet(pairs(e.map)) = PairSet(pairs(m))
        /\ Len(pairs(e.map)) = Len(pairs(m))
        /\ \A k \in Keys : AbsOpt(get(e.map, k)) = AbsOpt(get(m, k))
        /\ e.map.number_alive = m.number_alive
        /\ ~TombstoneIn(e.map)
        /\ e.map.number_used = e.map.number_alive
        /\ e.map.number_alive <= capacity(e.map) \div 2

\* C25: whenever ensure_capacity rebuilds the table of the map, the set of
\* key/value pairs and number_alive are those of before the rebuild, no entry
\* of the new table is tombstoned, and number_used = number_alive <= cap/2
\* holds of the new table.
C25_RebuildKeepsPairs == RebuiltFrom(ensure_capacity(map), map)

\* A table that ensure_capacity rebuilds at the same capacity: it holds a
\* present key and more dead entries than half of its capacity, one of them
\* a tombstone.
C25_Witness ==
    /\ ensure_capacity(map).rebuilt
    /\ capacity(ensure_capacity(map).map) = capacity(map)
    /\ TombstoneIn(map)
    /\ map.number_alive >= 1

\* The number of entries a walk of hash h over m examines when it stops with
\* a miss at the first free entry it meets: all cap of them when it meets none
ExaminedToFirstFree(m, h) ==
    IF FirstFree(m, h, 0) < m.entries.cap THEN FirstFree(m, h, 0) + 1 ELSE m.entries.cap

\* The lookup of key k over m, which returned f, stopped where the walk of
\* hash(k) stops
StoppedAtFree(f, m, k) ==
    /\ ~f.panic
    /\ f.found = None => f.examined = ExaminedToFirstFree(m, hash(k))
    /\ f.found # None =>
           /\ f.examined <= FirstFree(m, hash(k), 0)
           /\ is_this(f.found[1], k)

\* C26: a lookup (get, get_mut, contains_key all go through find_used or
\* find_used_mut) walks the probe sequence of the key and ends with a miss at
\* the first free entry it meets; it examines all cap probes only when the
\* sequence holds no free entry; tombstoned entries and alive entries with
\* another key are skipped, and a hit is found before any free entry.
C26_LookupStopsAtFree ==
    \A k \in Keys : StoppedAtFree(find_used(map, k), map, k)

\* Every probe of the walk of hash h over m indexes an initialized entry
ProbesInBounds(m, h) ==
    \A i \in 0 .. (m.entries.cap - 1) :
        /\ probe_index(h, i, m.entries.cap) >= 0
        /\ probe_index(h, i, m.entries.cap) < m.entries.len
        /\ probe_index(h, i, m.entries.cap) < Len(m.entries.items)

\* C27: in every state of the map, after with_capacity, every rebuild, clone,
\* compact and decompact, entries.len == entries.cap: the bucket array is
\* fully initialized, every probe index (h + i*i) mod cap of every key
\* addresses an initialized entry, and no lookup indexes out of bounds.
C27_BucketArrayFull ==
    /\ map.entries.len = map.entries.cap
    /\ Len(map.entries.items) = map.entries.len
    /\ ~panicked
    /\ \A k \in Keys :
           /\ ProbesInBounds(map, hash(k))
           /\ ~find_used(map, k).panic

\* A map of vectors that grew to 7 buckets and whose bucket array was built
\* again on the heap out of compact storage: its vectors are still in the
\* compact block.
C27_Witness ==
    /\ needs_drop
    /\ capacity(map) = 7
    /\ map.entries.ptr = "free"
    /\ \E s \in Slots(map) :
           /\ alive(map.entries.items[s])
           /\ map.entries.items[s].inner[1][2].ptr = "compact"

\* The blocks of the heap the allocator has handed out
Blocks(h) == 1 .. Len(h.count)

\* push(vec, value) with the buffer full: the capacity doubles (1 from 0),
\* the buffer is a block the allocator had not handed out before, the old
\* buffer is deallocated once if its pointer was free and no other block is,
\* nothing of a compact region is deallocated, and the pointer is free
Grown(r, h) ==
    /\ r.cap = (IF vec.cap = 0 THEN 1 ELSE 2 * vec.cap)
    /\ r.ptr = "free"
    /\ h.outer = Len(heap.count) + 1
    /\ Blocks(h) = Blocks(heap) \cup {h.outer}
    /\ h.count[h.outer] = 0
    /\ \A b \in Blocks(heap) :
           h.count[b] = heap.count[b]
                        + (IF vec.ptr = "free" /\ b = heap.outer THEN 1 ELSE 0)
    /\ h.region = heap.region

\* push(vec, value) with room left: capacity, pointer and heap as before
InPlace(r, h) ==
    /\ r.cap = vec.cap
    /\ r.ptr = vec.ptr
    /\ h.count = heap.count
    /\ h.outer = heap.outer
    /\ h.region = heap.region

PushedLast(r, h, value) ==
    /\ IF vec.len < vec.cap THEN InPlace(r, h) ELSE Grown(r, h)
    /\ r.len = vec.len + 1
    /\ r.len <= r.cap
    /\ AbsSeq(SubSeq(r.items, 1, vec.len)) = AbsSeq(vec.items)
    /\ r.items[r.len] = value

\* C28: push with len < cap writes the new element in place, without a new
\* block and with cap and the mode of the pointer unchanged; push with
\* len = cap grows to capacity 1 from 0 and to 2 * cap otherwise, carries the
\* elements over in order into a fresh block of the heap, deallocates the old
\* block only if the pointer was free, and leaves the pointer free whatever
\* its mode was.  Either way len <= cap afterwards and the new element is
\* the last one.
C28_PushGrowsOrWritesInPlace ==
    script.phase = "own" =>
        \A value \in VecValues :
            PushedLast(push(vec, value, "Value"), heap_push(heap, vec, 0), value)

\* A full vector in compact storage that took its elements on the heap: the
\* next push spills it into a block of the heap
C28_Witness ==
    /\ script.phase = "own"
    /\ vec.ptr = "compact"
    /\ vec.len = vec.cap
    /\ vec.len >= 2
    /\ heap.outer = 0
    /\ \E b \in Blocks(heap) : heap.count[b] = 1

\* The address of the tail region the layout is checked at
TailBase == 64

\* The sum of the dynamic_size_bytes of the first n elements of items
RECURSIVE TailsBefore(_, _, _)
TailsBefore(T, items, n) ==
    IF n = 0 THEN 0
    ELSE TailsBefore(T, items, n - 1) + elem_dynamic_size_bytes(T, items[n])

\* The writes W of compact of v to a tail region at TailBase of size bytes:
\* the array slots lie in the first cap * sizeof(T) bytes, slot i at
\* i * sizeof(T); the tail of element i starts at cap * sizeof(T) plus the
\* sizes of the tails before it and is no longer than its own size; no two
\* writes overlap and none leaves the region
LaidOut(W, v, T, size) ==
    /\ \A w \in W : w.part = "array" =>
           /\ w.lo = TailBase + (IF w.index = 0 THEN 0 ELSE (w.index - 1) * size_of(T))
           /\ w.hi <= TailBase + v.cap * size_of(T)
    /\ \A w \in W : w.part = "tail" =>
           /\ w.lo = TailBase + v.cap * size_of(T) + TailsBefore(T, v.items, w.index - 1)
           /\ w.hi <= w.lo + elem_dynamic_size_bytes(T, v.items[w.index])
    /\ \A w1 \in W : \A w2 \in W : w1 # w2 => (w1.hi <= w2.lo \/ w2.hi <= w1.lo)
    /\ \A w \in W : TailBase <= w.lo /\ w.lo < w.hi /\ w.hi <= TailBase + size

\* dynamic_size_bytes of v is additive, and compact lays v out within it
TailLayout(v, nd, T) ==
    /\ vec_dynamic_size_bytes(v, nd, T)
           = v.cap * size_of(T) + (IF nd THEN TailsBefore(T, v.items, v.len) ELSE 0)
    /\ LaidOut(vec_compact_writes(v, nd, T, TailBase), v, T,
               vec_dynamic_size_bytes(v, nd, T))

\* C29: dynamic_size_bytes of a vector is cap * sizeof(T) plus the sum of its
\* elements' dynamic_size_bytes; compact writes the element array at offset 0
\* of the tail region and the tail of element i at cap * sizeof(T) plus the
\* dynamic_size_bytes of the elements before it, so that the array and the
\* tails are pairwise disjoint and every byte written lies in
\* [tail_base, tail_base + dynamic_size_bytes(src)).  The same holds for the
\* bucket array of a map, whose free and tombstoned entries have no tail.
C29_TailLayout ==
    /\ script.phase = "own" => TailLayout(vec, needs_drop, "Value")
    /\ script.phase = "off" =>
           /\ TailLayout(map.entries, needs_drop, "Entry")
           /\ \A i \in Slots(map) :
                  (map.entries.items[i].tombstoned \/ map.entries.items[i].inner = None)
                      => entry_dynamic_size_bytes(map.entries.items[i]) = 0

\* A map of vectors moved into compact storage with a tombstone and two live
\* entries that have tails
C29_Witness ==
    /\ script.phase = "off"
    /\ needs_drop
    /\ map.entries.ptr = "compact"
    /\ TombstoneIn(map)
    /\ map.number_alive >= 2
    /\ \E i \in Slots(map) : \E j \in Slots(map) :
           /\ i < j
           /\ entry_dynamic_size_bytes(map.entries.items[i]) > 0
           /\ entry_dynamic_size_bytes(map.entries.items[j]) > 0

\* The blocks vec holds through a pointer in free mode: its buffer and, when
\* its elements are vectors, theirs
VecFreeBlocks ==
    (IF vec.ptr = "free" THEN {heap.outer} ELSE {})
    \cup (IF needs_drop
          THEN {heap.inner[i] : i \in {j \in 1 .. vec.len : vec.items[j].ptr = "free"}}
          ELSE {})

\* The keys of the alive entries of map whose value is a vector in free mode
FreeValueKeys ==
    IF needs_drop
    THEN {k \in Keys : get(map, k) # None /\ get(map, k)[1].ptr = "free"}
    ELSE {}

\* The blocks map holds through a pointer in free mode: its bucket array and
\* the buffers of its values
MapFreeBlocks ==
    (IF map.entries.ptr = "free" THEN {heap.outer} ELSE {})
    \cup {heap.val[k] : k \in FreeValueKeys}

\* Every pointer in free mode holds a block of its own that has not been
\* deallocated, and no other pointer holds a block
VecOwnsItsBlocks ==
    /\ (vec.ptr = "free") = (heap.outer # 0)
    /\ needs_drop =>
           /\ Len(heap.inner) = vec.len
           /\ \A i \in 1 .. vec.len : (vec.items[i].ptr = "free") = (heap.inner[i] # 0)
           /\ \A i \in 1 .. vec.len : \A j \in 1 .. vec.len :
                  (i # j /\ heap.inner[i] # 0) => heap.inner[i] # heap.inner[j]
           /\ \A i \in 1 .. vec.len : heap.inner[i] # 0 => heap.inner[i] # heap.outer
    /\ \A b \in VecFreeBlocks : b \in Blocks(heap) /\ heap.count[b] = 0

MapOwnsItsBlocks ==
    /\ (map.entries.ptr = "free") = (heap.outer # 0)
    /\ \A k \in Keys : (k \in FreeValueKeys) = (heap.val[k] # 0)
    /\ \A j \in Keys : \A k \in Keys :
           (j # k /\ heap.val[j] # 0) => heap.val[j] # heap.val[k]
    /\ \A k \in Keys : heap.val[k] # 0 => heap.val[k] # heap.outer
    /\ \A b \in MapFreeBlocks : b \in Blocks(heap) /\ heap.count[b] = 0

\* The call that left the heap h deallocated each block of held once, no
\* other block, and nothing of a compact region
FreedExactly(h, held) ==
    /\ Blocks(h) = Blocks(heap)
    /\ \A b \in Blocks(heap) :
           h.count[b] = heap.count[b] + (IF b \in held THEN 1 ELSE 0)
    /\ h.region = heap.region

\* C30: from creation through push, insert, growth and rebuilds, compact
\* (the source forgotten), decompact and drop, every block the allocator
\* handed out is deallocated at most once and nothing of a compact region is
\* deallocated; compact deallocates the block of the source and the block of
\* each of its elements exactly when the pointer to it is in free mode, and
\* so does the drop of a vector or a map.
C30_OwnershipDiscipline ==
    /\ \A b \in Blocks(heap) : heap.count[b] <= 1
    /\ heap.region = 0
    /\ script.phase = "own" =>
           /\ VecOwnsItsBlocks
           /\ FreedExactly(heap_compact(heap, vec, needs_drop), VecFreeBlocks)
           /\ FreedExactly(heap_drop(heap, vec, needs_drop), VecFreeBlocks)
    /\ (script.phase = "mapown" /\ ~panicked) =>
           /\ MapOwnsItsBlocks
           /\ FreedExactly(heap_map_compact(heap, map), MapFreeBlocks)
           /\ FreedExactly(heap_map_drop(heap, map), MapFreeBlocks)

\* A map of vectors that was dropped after it had been moved into compact
\* storage and taken out again: its bucket array was on the heap, a value
\* still in the compact region, and every block has been deallocated
C30_Witness ==
    /\ script.phase = "dropped"
    /\ needs_drop
    /\ map.entries.ptr = "free"
    /\ \E k \in Keys : get(map, k) # None /\ get(map, k)[1].ptr = "compact"
    /\ Len(heap.count) >= 3
    /\ \A b \in Blocks(heap) : heap.count[b] = 1

\* The elements of items that the closure accepts, in the order of items
RECURSIVE Kept(_, _)
Kept(items, keep) ==
    IF items = <<>> THEN <<>>
    ELSE IF AbsVal(items[Len(items)]) \in keep
    THEN Append(Kept(SubSeq(items, 1, Len(items) - 1), keep), items[Len(items)])
    ELSE Kept(SubSeq(items, 1, Len(items) - 1), keep)

\* retain(keep) on vec left r: the kept elements in order, len smaller by the
\* number of rejected elements, cap and pointer as before
Retained(r, keep) ==
    /\ AbsSeq(r.items) = AbsSeq(Kept(vec.items, keep))
    /\ r.len = vec.len - Cardinality({i \in 1 .. vec.len : AbsVal(vec.items[i]) \notin keep})
    /\ r.len = Len(r.items)
    /\ r.cap = vec.cap
    /\ r.ptr = vec.ptr
    /\ (\A i \in 1 .. vec.len : AbsVal(vec.items[i]) \in keep) => r = vec

ChangedSlots(m, n) == {i \in Slots(m) : m.entries.items[i] # n.entries.items[i]}

\* remove of a present key left r: the one entry that changed held the key
\* alive and is now a tombstone with the same cached hash and no pair
TombstonedOne(r, k) ==
    /\ r.res # None
    /\ r.map.number_alive = map.number_alive - 1
    /\ Cardinality(ChangedSlots(map, r.map)) = 1
    /\ \A i \in ChangedSlots(map, r.map) :
           /\ is_this(map.entries.items[i], k)
           /\ ~map.entries.items[i].tombstoned
           /\ r.map.entries.items[i].tombstoned
           /\ r.map.entries.items[i].inner = None
           /\ r.map.entries.items[i].hash = map.entries.items[i].hash

\* remove(k) left r: number_used and the bucket array's pointer, len and cap
\* are as before; a present key leaves one more tombstone, an absent key
\* leaves the map as it was
RemoveFrame(r, k) ==
    /\ ~r.panic
    /\ r.map.number_used = map.number_used
    /\ r.map.entries.cap = map.entries.cap
    /\ r.map.entries.len = map.entries.len
    /\ r.map.entries.ptr = map.entries.ptr
    /\ IF get(map, k) # None
       THEN TombstonedOne(r, k)
       ELSE r.map = map /\ r.res = None

\* C32: remove never changes number_used or the capacity.  remove(k) of a
\* present key decrements number_alive by exactly 1, turns exactly one entry
\* from alive to tombstoned, keeping its cached hash, and leaves every other
\* entry unchanged; remove(k) of an absent key leaves the counters and every
\* entry unchanged.
C32_RemoveFrame ==
    ~panicked => \A k \in Keys : RemoveFrame(remove(map, k), k)

\* A map that holds a key, lacks another and has a tombstone: a remove has
\* acted, and both cases of the next remove occur
C32_Witness ==
    /\ ~panicked
    /\ map.number_used > map.number_alive
    /\ \E k \in Keys : get(map, k) # None
    /\ \E k \in Keys : get(map, k) = None
    /\ \E i \in Slots(map) :
           map.entries.items[i].tombstoned /\ map.entries.items[i].hash # 0

\* C33: the capacity of a map never decreases: after every insert, remove and
\* push_at call (and every clone, compact and decompact) the capacity is
\* greater than or equal to the capacity before it; a rebuild keeps the
\* capacity or grows it.
C33_CapacityNeverDecreases ==
    [][capacity(map') >= capacity(map)]_vars

\* A map that holds a key in a table larger than every table with_capacity
\* makes for the program: a rebuild has grown it
C33_Witness ==
    /\ ~panicked
    /\ map.number_alive >= 1
    /\ \A l \in InitialCapacities : capacity(map) > capacity(with_capacity(l))

\* ensure_capacity rebuilds the map m at its own capacity
SameCapacityRebuild(m) ==
    /\ ensure_capacity(m).rebuilt
    /\ capacity(ensure_capacity(m).map) = capacity(m)

\* C34: a same-capacity rebuild happens only when the table holds at least
\* one tombstone: when ensure_capacity triggers on a table without tombstones
\* (number_used = number_alive > cap/2) the rebuild grows the capacity to the
\* smallest prime >= 2*cap; and every same-capacity rebuild strictly decreases
\* number_used.
C34_SameCapacityNeedsTombstone ==
    LET cap == capacity(map)
        e == ensure_capacity(map)
    IN  /\ (e.rebuilt /\ ~TombstoneIn(map)) =>
               /\ map.number_used = map.number_alive
               /\ capacity(e.map) = LeastPrimeAtLeast(2 * cap)
               /\ capacity(e.map) > cap
        /\ SameCapacityRebuild(map) =>
               /\ TombstoneIn(map)
               /\ e.map.number_used < map.number_used

\* A table about to be rebuilt at its own capacity: used slots beyond half
\* of it, most of them tombstones.
C34_Witness ==
    /\ ~panicked
    /\ SameCapacityRebuild(map)
    /\ map.number_alive >= 1
    /\ map.number_used > map.number_alive + 1

====
